---- MODULE Spec2Model ----
(***************************************************************************)
(* Scheduler and IPC of the microkernel (kernel/sched.c, kernel/ipc.c,     *)
(* kernel_main of main.c) as a state machine.                              *)
(*                                                                         *)
(* Every C function is an operator from a kernel-state record k to the     *)
(* kernel state it leaves (and, for the system calls, the value it         *)
(* returns), so that functions compose the way the C code calls them       *)
(* (timer_handler -> yield, sys_send -> get_task_by_pid / unblock_task).   *)
(* The actions at the end apply one entry point each to the variables.     *)
(*                                                                         *)
(* Pointers to task control blocks are slot indices 0..MAX_TASKS-1 into    *)
(* tasks[]; NULL is -1.                                                    *)
(***************************************************************************)
EXTENDS Integers, Sequences, FiniteSets, TLC

(* ---------------- sizes ------------------------------------------------ *)
\* kernel.h sets MAX_TASKS 8, MAX_IPC_MESSAGES 32, MAX_MESSAGE_SIZE 256;
\* the model keeps their roles and scales them down.
MAX_TASKS == 3
MAX_IPC_MESSAGES == 2
MAX_MESSAGE_SIZE == 2
\* next_pid is an int that only grows; runs stop creating at MaxPid.
MaxPid == 4
\* a run of the kernel as built makes at most MaxOps calls that count: a
\* sys_send that is accepted, a sys_recv of a task, and a direct call of
\* create_task (after boot), block_task, unblock_task, switch_to or
\* broadcast_message.
\* Rejected sends, yields, exits, timer ticks and schedule() calls are not
\* counted.
MaxOps == 3
\* the budget of the runs that also call the entry points directly
MaxApiOps == 2
\* the budget of the runs checked under fairness
MaxLiveOps == 2
\* hello_world yields 10 times before it exits; the model scales the loop
\* down to HelloYields iterations
HelloYields == 3
\* int is 32 bits wide and size_t 64 in the build; the model keeps the
\* conversion of a size_t to int (the return of sys_send and sys_recv) and
\* scales the width of int down to IntWidth bits
IntWidth == 4

\* vm.c sets MAX_PHYSICAL_PAGES 1024; the model scales the frame pool down
MAX_PHYSICAL_PAGES == 2
\* a run of the page-fault handler takes at most MaxFaults timestamps
MaxFaults == 4
\* a page table has 512 entries; the model keeps the first TableEntries of
\* a page directory, which hold the user range, and the first PdptEntries
\* of the page-directory-pointer table
TableEntries == 4
PdptEntries == 2

PAGE_FRAME_SIZE == 4096
USER_BASE == 4194304
USER_STACK_TOP == 6291456
\* the initial value of next_physical_addr, 0x1000000
FirstFrame == 16777216
\* the size of the region one page-directory entry maps, 0x200000
RegionSize == 2097152
\* the addresses of the page tables paging_init builds
PML4_ADDR == 4096
PDPT_ADDR == 8192
PD_ADDR == 12288
\* the flag bits of a page-table entry
PTE_PRESENT == 1
PTE_WRITABLE == 2
PTE_USER == 4
PTE_GLOBAL == 16
PTE_HUGE == 128

NULL == 0 - 1

IntMod == 2 ^ IntWidth
\* (int)x of a size_t x
ToInt(x) ==
  LET m == x % IntMod IN IF m >= IntMod \div 2 THEN m - IntMod ELSE m
\* INT_MAX + 1, the least size_t that (int) turns negative
HugeLen == IntMod \div 2

Slots == 0 .. (MAX_TASKS - 1)
MsgIdx == 0 .. (MAX_IPC_MESSAGES - 1)

\* task_state_t
TASK_READY == "READY"
TASK_RUNNING == "RUNNING"
TASK_BLOCKED == "BLOCKED"
TASK_ZOMBIE == "ZOMBIE"

\* the user buffers handed to sys_send, MAX_MESSAGE_SIZE + 1 bytes each (a
\* length of MAX_MESSAGE_SIZE + 1 is still a length of the buffer), the
\* lengths sent and the capacities received with
Buffers == { [i \in 1 .. (MAX_MESSAGE_SIZE + 1) |-> i] }
SendLens == {0, MAX_MESSAGE_SIZE, MAX_MESSAGE_SIZE + 1}
RecvLens == {MAX_MESSAGE_SIZE - 1, MAX_MESSAGE_SIZE, HugeLen}
\* a zero-filled data[MAX_MESSAGE_SIZE] (static storage)
ZeroData == [i \in 1 .. MAX_MESSAGE_SIZE |-> 0]
\* ipc_message_t of static storage
ZeroMessage == [sender_pid |-> 0, receiver_pid |-> 0, size |-> 0, data |-> ZeroData]

Min(a, b) == IF a < b THEN a ELSE b

VARIABLES
  tasks,              \* pcb_t tasks[MAX_TASKS]: state and pid of each slot
  current_task,       \* pcb_t *current_task
  next_pid,           \* int next_pid
  ready_queue,        \* pcb_t *ready_queue[MAX_TASKS]
  ready_queue_head,
  ready_queue_tail,
  ready_queue_count,
  blocked_tasks,      \* pcb_t *blocked_tasks[MAX_TASKS]
  blocked_count,
  message_queues,     \* ipc_message_t message_queues[MAX_TASKS][MAX_IPC_MESSAGES]
  queue_head,
  queue_tail,
  queue_count,
  pc,                 \* per slot: where the task's saved context resumes
  cpu,                \* whose code the processor executes
  dispatched,         \* the tasks switch_to_asm was called for, in order (the
                      \* first MAX_TASKS calls)
  boot,               \* kernel_main: number of create_task calls made so far
  last,               \* the system call of the last step and what it returned
  pending,            \* per pid: the messages accepted for it and not yet
                      \* returned to it, oldest first
  nops,               \* number of counted calls made so far (see MaxOps)
  budget,             \* number of counted calls the run may make
  vm,                 \* the state of vm.c and the page tables
  vmlast,             \* the last call into vm.c: its name and arguments, the
                      \* calls the page-fault handler made, and the name and
                      \* address of the call before it
  km,                 \* kernel_main inside schedule(): the line it is at
                      \* and the locals task (of dequeue_ready) and
                      \* next_task (of schedule)
  iter                \* per slot: the loop variable i of the hello_world
                      \* program the task runs

vars == << tasks, current_task, next_pid, ready_queue, ready_queue_head,
           ready_queue_tail, ready_queue_count, blocked_tasks, blocked_count,
           message_queues, queue_head, queue_tail, queue_count, pc, cpu,
           dispatched, boot, last, pending, nops, budget, vm, vmlast,
           km, iter >>

\* the variables of sched.c, ipc.c and kernel_main
sched_vars == << tasks, current_task, next_pid, ready_queue, ready_queue_head,
                 ready_queue_tail, ready_queue_count, blocked_tasks,
                 blocked_count, message_queues, queue_head, queue_tail,
                 queue_count, pc, cpu, dispatched, boot, last, pending, nops,
                 budget, km, iter >>

\* the kernel state as one record
K == [ tasks |-> tasks, current_task |-> current_task, next_pid |-> next_pid,
       ready_queue |-> ready_queue, ready_queue_head |-> ready_queue_head,
       ready_queue_tail |-> ready_queue_tail,
       ready_queue_count |-> ready_queue_count,
       blocked_tasks |-> blocked_tasks, blocked_count |-> blocked_count,
       message_queues |-> message_queues, queue_head |-> queue_head,
       queue_tail |-> queue_tail, queue_count |-> queue_count,
       pc |-> pc, cpu |-> cpu, dispatched |-> dispatched ]

Commit(k) ==
  /\ tasks' = k.tasks
  /\ current_task' = k.current_task
  /\ next_pid' = k.next_pid
  /\ ready_queue' = k.ready_queue
  /\ ready_queue_head' = k.ready_queue_head
  /\ ready_queue_tail' = k.ready_queue_tail
  /\ ready_queue_count' = k.ready_queue_count
  /\ blocked_tasks' = k.blocked_tasks
  /\ blocked_count' = k.blocked_count
  /\ message_queues' = k.message_queues
  /\ queue_head' = k.queue_head
  /\ queue_tail' = k.queue_tail
  /\ queue_count' = k.queue_count
  /\ pc' = k.pc
  /\ cpu' = k.cpu
  /\ dispatched' = k.dispatched

(* ---------------- sched.c ---------------------------------------------- *)

\* void enqueue_ready(pcb_t *task): dropped silently when the ring is full
enqueue_ready(k, task) ==
  IF k.ready_queue_count < MAX_TASKS
  THEN [k EXCEPT !.ready_queue[k.ready_queue_tail] = task,
                 !.ready_queue_tail = (k.ready_queue_tail + 1) % MAX_TASKS,
                 !.ready_queue_count = k.ready_queue_count + 1]
  ELSE k

\* pcb_t *dequeue_ready(void): the task returned, NULL on an empty ring
dequeue_ready_task(k) ==
  IF k.ready_queue_count > 0 THEN k.ready_queue[k.ready_queue_head] ELSE NULL

\* pcb_t *dequeue_ready(void): the ring it leaves
dequeue_ready(k) ==
  IF k.ready_queue_count > 0
  THEN [k EXCEPT !.ready_queue_head = (k.ready_queue_head + 1) % MAX_TASKS,
                 !.ready_queue_count = k.ready_queue_count - 1]
  ELSE k

\* void enqueue_current(void)
enqueue_current(k) ==
  IF k.current_task # NULL /\ k.tasks[k.current_task].state = TASK_RUNNING
  THEN enqueue_ready([k EXCEPT !.tasks[k.current_task].state = TASK_READY],
                     k.current_task)
  ELSE k

\* switch_to_asm(task) (context.S): the processor continues in the context
\* saved for task, which is current_task at every call
switch_to_asm(k, task) ==
  [k EXCEPT !.cpu = "task",
            !.dispatched = IF Len(@) < MAX_TASKS THEN Append(@, task) ELSE @]

\* the tail shared by schedule, yield, exit_task, block_task and sys_recv:
\*   current_task = next; current_task->state = TASK_RUNNING; switch_to_asm
dispatch(k, next) ==
  switch_to_asm([k EXCEPT !.current_task = next,
                          !.tasks[next].state = TASK_RUNNING], next)

\* a fresh or resumed context: at is "user" (returns to user code), "recv"
\* (suspended in sys_recv at the switch_to_asm of line 92, len is the
\* caller's buffer capacity) or "halt" (inside a while (1) hlt loop)
AtUser == [at |-> "user", len |-> 0]
AtRecv(len) == [at |-> "recv", len |-> len]
AtHalt == [at |-> "halt", len |-> 0]

\* for (i = 0; i < n; i++) if (hit) ...break: the least index of S, NULL
\* when the loop ends without a hit
FirstOf(S) ==
  IF S = {} THEN NULL ELSE CHOOSE i \in S : \A j \in S : i <= j

\* create_task with the PID taken from the slot instead of next_pid
create_task_slot_pid(k) ==
  LET task_id == FirstOf({i \in Slots : k.tasks[i].state = TASK_ZOMBIE})
  IN IF task_id = NULL
     THEN [k |-> k, ret |-> 0 - 1]
     ELSE [k |-> enqueue_ready(
                   [k EXCEPT !.tasks[task_id] =
                                [state |-> TASK_READY, pid |-> task_id + 1],
                             !.next_pid = k.next_pid + 1,
                             !.pc[task_id] = AtUser],
                   task_id),
           ret |-> task_id + 1]

\* create_task without the enqueue_ready of line 69
create_task_no_enqueue(k) ==
  LET task_id == FirstOf({i \in Slots : k.tasks[i].state = TASK_ZOMBIE})
  IN IF task_id = NULL
     THEN [k |-> k, ret |-> 0 - 1]
     ELSE [k |-> [k EXCEPT !.tasks[task_id] =
                              [state |-> TASK_READY, pid |-> k.next_pid],
                           !.next_pid = k.next_pid + 1,
                           !.pc[task_id] = AtUser],
           ret |-> k.next_pid]

\* int create_task(name, entry_point, priority): [k, ret]
create_task(k) ==
  LET task_id == FirstOf({i \in Slots : k.tasks[i].state = TASK_ZOMBIE})
  IN IF task_id = NULL
     THEN [k |-> k, ret |-> 0 - 1]
     ELSE [k |-> enqueue_ready(
                   [k EXCEPT !.tasks[task_id] =
                                [state |-> TASK_READY, pid |-> k.next_pid],
                             !.next_pid = k.next_pid + 1,
                             !.pc[task_id] = AtUser],
                   task_id),
           ret |-> k.next_pid]

\* void schedule(void)
schedule(k) ==
  LET first == dequeue_ready_task(k)
      k1 == IF k.current_task = NULL
            THEN [dequeue_ready(k) EXCEPT !.current_task = first]
            ELSE k
      next_task == dequeue_ready_task(k1)
  IN IF k1.current_task = NULL THEN k1
     ELSE IF next_task = NULL THEN k1
     ELSE dispatch(enqueue_current(dequeue_ready(k1)), next_task)

\* void switch_to(pcb_t *task)
switch_to(k, task) ==
  LET k1 == IF k.current_task # NULL
            THEN [k EXCEPT !.tasks[k.current_task].state = TASK_READY]
            ELSE k
  IN dispatch(k1, task)

\* yield without the demotion of line 144
yield_no_demote(k) ==
  LET k1 == IF k.current_task # NULL
            THEN enqueue_ready(k, k.current_task)
            ELSE k
      next_task == dequeue_ready_task(k1)
  IN IF next_task # NULL THEN dispatch(dequeue_ready(k1), next_task) ELSE k1

\* yield that dispatches the head of the ring without the dequeue_ready of
\* line 148
yield_no_dequeue(k) ==
  LET k1 == IF k.current_task # NULL
            THEN enqueue_ready(
                   [k EXCEPT !.tasks[k.current_task].state = TASK_READY],
                   k.current_task)
            ELSE k
      next_task == dequeue_ready_task(k1)
  IN IF next_task # NULL THEN dispatch(k1, next_task) ELSE k1

\* void yield(void)
yield(k) ==
  LET k1 == IF k.current_task # NULL
            THEN enqueue_ready(
                   [k EXCEPT !.tasks[k.current_task].state = TASK_READY],
                   k.current_task)
            ELSE k
      next_task == dequeue_ready_task(k1)
  IN IF next_task # NULL THEN dispatch(dequeue_ready(k1), next_task) ELSE k1

\* the else branch of exit_task and block_task: current_task = NULL and the
\* processor stays in while (1) hlt
halt_no_task(k) == [k EXCEPT !.current_task = NULL, !.cpu = "halt"]

\* void exit_task(int exit_code)
exit_task(k) ==
  IF k.current_task = NULL THEN k
  ELSE LET k1 == [k EXCEPT !.tasks[k.current_task].state = TASK_ZOMBIE]
           next_task == dequeue_ready_task(k1)
       IN IF next_task # NULL
          THEN dispatch(dequeue_ready(k1), next_task)
          ELSE halt_no_task(k1)

\* void timer_handler(void)
timer_handler(k) == IF k.current_task # NULL THEN yield(k) ELSE k

\* pcb_t *get_task_by_pid(int pid)
get_task_by_pid(k, pid) ==
  FirstOf({i \in Slots : k.tasks[i].pid = pid
                           /\ k.tasks[i].state # TASK_ZOMBIE})

\* void block_task(void)
block_task(k) ==
  IF k.current_task = NULL THEN k
  ELSE LET k1 == [k EXCEPT !.tasks[k.current_task].state = TASK_BLOCKED]
           next_task == dequeue_ready_task(k1)
       IN IF next_task # NULL
          THEN dispatch(dequeue_ready(k1), next_task)
          ELSE halt_no_task(k1)

\* void unblock_task(pcb_t *task)
unblock_task(k, task) ==
  IF task # NULL /\ k.tasks[task].state = TASK_BLOCKED
  THEN enqueue_ready([k EXCEPT !.tasks[task].state = TASK_READY], task)
  ELSE k

(* ---------------- ipc.c ------------------------------------------------ *)

\* message_queues, queue_head, queue_tail and queue_count have MAX_TASKS
\* rows and are indexed by PID (target->pid, current_task->pid), not by
\* slot.  A PID outside 0..MAX_TASKS-1 addresses memory outside the four
\* arrays: what is read there is any value (the parameter g of sys_send and
\* sys_recv, chosen by the caller of the operator), what is written there
\* is not part of the arrays.  The cells addressed are taken to be none of
\* the variables of sched.c and main.c (the image's layout is not part of
\* the source).
InArrays(pid) == pid \in 0 .. (MAX_TASKS - 1)

\* what a read outside the arrays may return: a count that is zero, in
\* between or at the limit, and a record whose size is zero, the largest a
\* send accepts, or beyond INT_MAX, with bytes no task has sent
Garbage == [count : {0, 1, MAX_IPC_MESSAGES},
            msg : [sender_pid : {0}, receiver_pid : {0},
                   size : {0, MAX_MESSAGE_SIZE, HugeLen},
                   data : {[i \in 1 .. MAX_MESSAGE_SIZE |-> 99]}]]
NoGarbage == CHOOSE g \in Garbage : TRUE
\* the reads that sys_recv (count and head message) and sys_send (count)
\* can make with index pid
Reads(pid) == IF InArrays(pid) THEN {NoGarbage} ELSE Garbage
CountReads(pid) ==
  IF InArrays(pid) THEN {NoGarbage}
  ELSE {g \in Garbage : g.msg = NoGarbage.msg}

\* queue_count[pid] as the code reads it
read_count(k, pid, g) == IF InArrays(pid) THEN k.queue_count[pid] ELSE g.count

\* message_queues[pid][queue_head[pid]] as the code reads it
read_head_message(k, pid, g) ==
  IF InArrays(pid) THEN k.message_queues[pid][k.queue_head[pid]] ELSE g.msg

\* the bytes msg[0..len) of a user buffer
Bytes(buf, len) == [i \in 1 .. len |-> buf[i]]

\* the store of lines 44-57 without the queue_count increment of line 57
store_message_no_count(k, idx, sender, pid, msg, len) ==
  IF InArrays(idx)
  THEN LET old == k.message_queues[idx][k.queue_tail[idx]]
           new == [sender_pid |-> sender, receiver_pid |-> pid, size |-> len,
                   data |-> [i \in 1 .. MAX_MESSAGE_SIZE |->
                               IF i <= len THEN msg[i] ELSE old.data[i]]]
       IN [k EXCEPT !.message_queues[idx][k.queue_tail[idx]] = new,
                    !.queue_tail[idx] = (k.queue_tail[idx] + 1) % MAX_IPC_MESSAGES]
  ELSE k

\* sys_send lines 44-57: the record written at tail, tail and count advanced
store_message(k, idx, sender, pid, msg, len) ==
  IF InArrays(idx)
  THEN LET old == k.message_queues[idx][k.queue_tail[idx]]
           new == [sender_pid |-> sender, receiver_pid |-> pid, size |-> len,
                   data |-> [i \in 1 .. MAX_MESSAGE_SIZE |->
                               IF i <= len THEN msg[i] ELSE old.data[i]]]
       IN [k EXCEPT !.message_queues[idx][k.queue_tail[idx]] = new,
                    !.queue_tail[idx] = (k.queue_tail[idx] + 1) % MAX_IPC_MESSAGES,
                    !.queue_count[idx] = k.queue_count[idx] + 1]
  ELSE k

\* sys_send lines 59-70: the first entry of the blocked list whose pid is
\* pid is unblocked and the entries behind it move up by one
wake_receiver(k, pid) ==
  LET i == FirstOf({j \in 0 .. (k.blocked_count - 1) :
                      /\ k.blocked_tasks[j] # NULL
                      /\ k.tasks[k.blocked_tasks[j]].pid = pid})
  IN IF i = NULL THEN k
     ELSE LET k1 == unblock_task(k, k.blocked_tasks[i])
          IN [k1 EXCEPT
                !.blocked_tasks =
                   [j \in Slots |->
                      IF j >= i /\ j < k.blocked_count - 1
                      THEN k.blocked_tasks[j + 1] ELSE k.blocked_tasks[j]],
                !.blocked_count = k.blocked_count - 1]

\* int sys_send(int pid, void *msg, size_t len): [k, ret]
sys_send(k, pid, msg, len, g) ==
  LET target == get_task_by_pid(k, pid)
      Fail == [k |-> k, ret |-> 0 - 1]
  IN IF k.current_task = NULL THEN Fail
     ELSE IF len > MAX_MESSAGE_SIZE THEN Fail
     ELSE IF target = NULL THEN Fail
     ELSE IF read_count(k, k.tasks[target].pid, g) >= MAX_IPC_MESSAGES THEN Fail
     ELSE [k |-> wake_receiver(
                   store_message(k, k.tasks[target].pid,
                                 k.tasks[k.current_task].pid, pid, msg, len),
                   pid),
           ret |-> ToInt(len)]

\* sys_recv lines 101-114: [k, ret, out, how], out being the bytes copied to
\* buf[0 .. MAX_MESSAGE_SIZE) (a copy_len beyond MAX_MESSAGE_SIZE, possible
\* only with a record read outside the arrays, also copies what lies behind
\* data[] to what lies behind these bytes of buf)
recv_message(k, len, g) ==
  LET idx == k.tasks[k.current_task].pid
      message == read_head_message(k, idx, g)
      copy_len == Min(len, message.size)
  IN [k |-> IF InArrays(idx)
            THEN [k EXCEPT !.queue_head[idx] =
                              (k.queue_head[idx] + 1) % MAX_IPC_MESSAGES,
                           !.queue_count[idx] = k.queue_count[idx] - 1]
            ELSE k,
      ret |-> ToInt(copy_len),
      out |-> Bytes(message.data, Min(copy_len, MAX_MESSAGE_SIZE)),
      how |-> "returned"]

\* sys_recv lines 83-98: the caller blocks; the call has not returned
recv_block(k, len) ==
  LET cur == k.current_task
      k1 == [k EXCEPT !.tasks[cur].state = TASK_BLOCKED,
                      !.blocked_tasks[k.blocked_count] = cur,
                      !.blocked_count = k.blocked_count + 1]
      next_task == dequeue_ready_task(k1)
  IN IF next_task # NULL
     THEN dispatch([dequeue_ready(k1) EXCEPT !.pc[cur] = AtRecv(len)], next_task)
     ELSE [k1 EXCEPT !.pc[cur] = AtHalt]

\* int sys_recv(void *buf, size_t len): [k, ret, out, how]; how is "failed"
\* for the return of line 78, "blocked" when the caller was suspended at
\* line 92 or stays in the loop of line 95 (nothing is returned then), and
\* "returned" for the return of line 114
sys_recv(k, len, g) ==
  IF k.current_task = NULL
  THEN [k |-> k, ret |-> 0 - 1, out |-> << >>, how |-> "failed"]
  ELSE IF read_count(k, k.tasks[k.current_task].pid, g) = 0
  THEN [k |-> recv_block(k, len), ret |-> 0, out |-> << >>, how |-> "blocked"]
  ELSE recv_message(k, len, g)

\* sys_recv from line 101 on, run by a task that switch_to_asm resumed at
\* line 92: [k, ret, out, how]
sys_recv_resume(k, g) ==
  recv_message([k EXCEPT !.pc[k.current_task] = AtUser],
               k.pc[k.current_task].len, g)

\* message_queues[pid][index].sender_pid as the code reads it
read_sender_pid(k, pid, index, g) ==
  IF InArrays(pid) THEN k.message_queues[pid][index].sender_pid
  ELSE g.msg.sender_pid

\* int get_last_sender_pid(void): the value returned
get_last_sender_pid(k, g) ==
  IF k.current_task = NULL
       \/ read_count(k, k.tasks[k.current_task].pid, g) = 0
  THEN 0 - 1
  ELSE LET pid == k.tasks[k.current_task].pid
           head == IF InArrays(pid) THEN k.queue_head[pid] ELSE 0
           last_index == (head - 1 + MAX_IPC_MESSAGES) % MAX_IPC_MESSAGES
       IN read_sender_pid(k, pid, last_index, g)

\* int peek_message_size(void): the value returned
peek_message_size(k, g) ==
  IF k.current_task = NULL
       \/ read_count(k, k.tasks[k.current_task].pid, g) = 0
  THEN 0 - 1
  ELSE ToInt(read_head_message(k, k.tasks[k.current_task].pid, g).size)

\* int broadcast_message(void *msg, size_t len): [k, ret, accepted]; g[i]
\* is what the sys_send to the task of slot i reads outside the arrays, ret
\* is sent_count and accepted the PIDs whose sys_send returned >= 0 (stored
\* the message)
broadcast_message(k, msg, len, g) ==
  IF k.current_task = NULL
  THEN [k |-> k, ret |-> 0 - 1, accepted |-> {}]
  ELSE LET caller == k.tasks[k.current_task].pid
           \* after the loop bodies for i = 0 .. n - 1
           loop[n \in 0 .. MAX_TASKS] ==
             IF n = 0 THEN [k |-> k, ret |-> 0, accepted |-> {}]
             ELSE LET i == n - 1
                      b == loop[n - 1]
                      pid == b.k.tasks[i].pid
                  IN IF b.k.tasks[i].state # TASK_ZOMBIE /\ pid # caller
                     THEN LET r == sys_send(b.k, pid, msg, len, g[i])
                          IN [k |-> r.k,
                              ret |-> IF r.ret > 0 THEN b.ret + 1 ELSE b.ret,
                              accepted |-> IF r.ret >= 0
                                           THEN b.accepted \cup {pid}
                                           ELSE b.accepted]
                     ELSE b
       IN loop[MAX_TASKS]

(* ---------------- vm.c and paging_init ---------------------------------- *)

\* The state of the virtual memory manager is a record m: page_frames is
\* page_frames[0 .. page_frame_count) as a sequence, timestamp the static
\* counter of get_timestamp, pml4, pdpt and pd the entries of the three
\* page-table pages that paging_init builds at 0x1000, 0x2000 and 0x3000
\* (of pml4 entry 0, of pdpt the first PdptEntries entries, of pd the
\* first TableEntries entries), pds the page directories that map_page
\* allocates, by their address, and panicked says that panic() was called.
\* Addresses are numbers below 2^31, so the PML4 index of every address is
\* 0.

\* a | b for a, b in 0 .. 2^31 - 1
BitOr(a, b) ==
  LET sum[i \in 0 .. 31] ==
        IF i = 31 THEN 0
        ELSE sum[i + 1]
             + (IF (a \div 2 ^ i) % 2 = 1 \/ (b \div 2 ^ i) % 2 = 1
                THEN 2 ^ i ELSE 0)
  IN sum[0]

\* entry & flag # 0, flag a power of two
HasFlag(entry, flag) == (entry \div flag) % 2 = 1

\* x & ~0xFFF
FrameOf(x) == x - (x % PAGE_FRAME_SIZE)

\* (virtual_addr >> 39) & 0x1FF, (virtual_addr >> 30) & 0x1FF and
\* (virtual_addr >> 21) & 0x1FF
pml4_index(virtual_addr) == ((virtual_addr \div 2 ^ 20) \div 2 ^ 19) % 512
pdp_index(virtual_addr) == (virtual_addr \div 2 ^ 30) % 512
pd_index(virtual_addr) == (virtual_addr \div RegionSize) % 512

\* paging_init and vm_init
VmBoot ==
  [ page_frames |-> << >>,
    next_physical_addr |-> FirstFrame,
    timestamp |-> 0,
    pml4 |-> [i \in {0} |-> PDPT_ADDR + PTE_PRESENT + PTE_WRITABLE],
    pdpt |-> [i \in 0 .. (PdptEntries - 1) |->
                IF i = 0 THEN PD_ADDR + PTE_PRESENT + PTE_WRITABLE ELSE 0],
    pd |-> [i \in 0 .. (TableEntries - 1) |->
              i * RegionSize + PTE_PRESENT + PTE_WRITABLE + PTE_HUGE],
    pds |-> [a \in {} |-> << >>],
    panicked |-> FALSE ]

\* the page directory at address addr, (uint64_t*)(pdpt[pdp_index] & ~0xFFF)
PdAt(m, addr) == IF addr = PD_ADDR THEN m.pd ELSE m.pds[addr]

\* pd[index] = entry for the page directory at address addr
WithPdEntry(m, addr, index, entry) ==
  IF addr = PD_ADDR THEN [m EXCEPT !.pd[index] = entry]
  ELSE [m EXCEPT !.pds[addr][index] = entry]

\* void map_page(virtual_addr, physical_addr, user, writable); the PML4
\* entry 0 of paging_init is present and nothing clears it, so the branch of
\* lines 151-162 is not taken for an address below 2^39
map_page(m, virtual_addr, physical_addr, user, writable) ==
  LET pd_addr == m.next_physical_addr
      m1 == IF ~ HasFlag(m.pdpt[pdp_index(virtual_addr)], PTE_PRESENT)
            THEN [m EXCEPT
                    !.next_physical_addr = @ + 4096,
                    !.pds = [a \in DOMAIN m.pds \cup {pd_addr} |->
                               IF a = pd_addr
                               THEN [i \in 0 .. (TableEntries - 1) |-> 0]
                               ELSE m.pds[a]],
                    !.pdpt[pdp_index(virtual_addr)] =
                       BitOr(pd_addr, PTE_PRESENT + PTE_WRITABLE)]
            ELSE m
      flags == PTE_PRESENT
               + (IF writable THEN PTE_WRITABLE ELSE 0)
               + (IF user THEN PTE_USER ELSE PTE_GLOBAL)
  IN WithPdEntry(m1, FrameOf(m1.pdpt[pdp_index(virtual_addr)]),
                 pd_index(virtual_addr), BitOr(physical_addr, flags))

\* unmap_page clearing the entry at the index of the level above
unmap_page_pdp_index(m, virtual_addr) ==
  IF ~ HasFlag(m.pml4[pml4_index(virtual_addr)], PTE_PRESENT) THEN m
  ELSE IF ~ HasFlag(m.pdpt[pdp_index(virtual_addr)], PTE_PRESENT) THEN m
  ELSE WithPdEntry(m, FrameOf(m.pdpt[pdp_index(virtual_addr)]),
                   pdp_index(virtual_addr), 0)

\* void unmap_page(virtual_addr)
unmap_page(m, virtual_addr) ==
  IF ~ HasFlag(m.pml4[pml4_index(virtual_addr)], PTE_PRESENT) THEN m
  ELSE IF ~ HasFlag(m.pdpt[pdp_index(virtual_addr)], PTE_PRESENT) THEN m
  ELSE WithPdEntry(m, FrameOf(m.pdpt[pdp_index(virtual_addr)]),
                   pd_index(virtual_addr), 0)

\* uint64_t get_physical_address(virtual_addr)
get_physical_address(m, virtual_addr) ==
  IF ~ HasFlag(m.pml4[pml4_index(virtual_addr)], PTE_PRESENT) THEN 0
  ELSE IF ~ HasFlag(m.pdpt[pdp_index(virtual_addr)], PTE_PRESENT) THEN 0
  ELSE LET pd == PdAt(m, FrameOf(m.pdpt[pdp_index(virtual_addr)]))
       IN IF ~ HasFlag(pd[pd_index(virtual_addr)], PTE_PRESENT) THEN 0
          ELSE BitOr(FrameOf(pd[pd_index(virtual_addr)]),
                     virtual_addr % RegionSize)

\* int allocate_page(virtual_addr): [m, ret]
allocate_page(m, virtual_addr) ==
  LET hit == FirstOf({i \in DOMAIN m.page_frames :
                        m.page_frames[i].virtual_addr = virtual_addr})
      now == m.timestamp + 1
  IN IF hit # NULL
     THEN [m |-> [m EXCEPT !.page_frames[hit].accessed = TRUE,
                           !.page_frames[hit].last_access = now,
                           !.timestamp = now],
           ret |-> 0]
     ELSE IF Len(m.page_frames) >= MAX_PHYSICAL_PAGES
     THEN [m |-> m, ret |-> 0 - 1]
     ELSE [m |-> map_page(
                   [m EXCEPT !.next_physical_addr = @ + PAGE_FRAME_SIZE,
                             !.timestamp = now,
                             !.page_frames =
                                Append(@, [virtual_addr |-> virtual_addr,
                                           physical_addr |-> m.next_physical_addr,
                                           dirty |-> FALSE,
                                           accessed |-> TRUE,
                                           last_access |-> now])],
                   virtual_addr, m.next_physical_addr, TRUE, TRUE),
           ret |-> 0]

\* evict_lru_page without the removal of lines 131-135
evict_lru_page_unmap_only(m) ==
  IF Len(m.page_frames) = 0 THEN m
  ELSE LET lru_index ==
             FirstOf({i \in DOMAIN m.page_frames :
                        \A j \in DOMAIN m.page_frames :
                          m.page_frames[i].last_access
                            <= m.page_frames[j].last_access})
       IN unmap_page(m, m.page_frames[lru_index].virtual_addr)

\* void evict_lru_page(void)
evict_lru_page(m) ==
  IF Len(m.page_frames) = 0 THEN m
  ELSE LET lru_index ==
             FirstOf({i \in DOMAIN m.page_frames :
                        \A j \in DOMAIN m.page_frames :
                          m.page_frames[i].last_access
                            <= m.page_frames[j].last_access})
           m1 == unmap_page(m, m.page_frames[lru_index].virtual_addr)
       IN [m1 EXCEPT !.page_frames =
                        [i \in 1 .. (Len(m.page_frames) - 1) |->
                           IF i < lru_index THEN m.page_frames[i]
                           ELSE m.page_frames[i + 1]]]

\* a call that the page-fault handler makes, with what it returned
Called(fn, ret) == [fn |-> fn, ret |-> ret]

\* page_fault_handler_c with USER_STACK_TOP itself taken as a user address
page_fault_handler_c_top_included(m, fault_addr) ==
  IF fault_addr < USER_BASE \/ fault_addr > USER_STACK_TOP
  THEN [m |-> [m EXCEPT !.panicked = TRUE],
        calls |-> << Called("panic", 0) >>]
  ELSE LET first == allocate_page(m, fault_addr)
           retry == allocate_page(evict_lru_page(m), fault_addr)
       IN IF first.ret < 0
          THEN [m |-> retry.m,
                calls |-> << Called("allocate_page", first.ret),
                             Called("evict_lru_page", 0),
                             Called("allocate_page", retry.ret) >>]
          ELSE [m |-> first.m,
                calls |-> << Called("allocate_page", first.ret) >>]

\* void page_fault_handler_c(fault_addr): [m, calls], calls the calls
\* made in order; panic() does not return
page_fault_handler_c(m, fault_addr) ==
  IF fault_addr < USER_BASE \/ fault_addr >= USER_STACK_TOP
  THEN [m |-> [m EXCEPT !.panicked = TRUE],
        calls |-> << Called("panic", 0) >>]
  ELSE LET first == allocate_page(m, fault_addr)
           retry == allocate_page(evict_lru_page(m), fault_addr)
       IN IF first.ret < 0
          THEN [m |-> retry.m,
                calls |-> << Called("allocate_page", first.ret),
                             Called("evict_lru_page", 0),
                             Called("allocate_page", retry.ret) >>]
          ELSE [m |-> first.m,
                calls |-> << Called("allocate_page", first.ret) >>]

(* ---------------- the machine ------------------------------------------ *)

Pids == 0 .. MaxPid

\* the record of a call into vm.c
VmCall(op, addr, phys, user, writable, calls, before) ==
  [op |-> op, addr |-> addr, phys |-> phys, user |-> user,
   writable |-> writable, calls |-> calls,
   prev_op |-> before.op, prev_addr |-> before.addr]

NoVmCall ==
  [op |-> "none", addr |-> 0, phys |-> 0, user |-> FALSE,
   writable |-> FALSE, calls |-> << >>, prev_op |-> "none", prev_addr |-> 0]

\* pid of the caller of a system call, 0 when there is no current task
CallerPid == IF current_task = NULL THEN 0 ELSE tasks[current_task].pid

\* no message
NoMessage == [sender_pid |-> NULL, receiver_pid |-> NULL, size |-> 0,
              data |-> << >>]

\* what the last step was: the system call made, the pid of its caller, the
\* value returned and how ("returned", "failed", "blocked"), for sys_recv
\* the capacity given and the bytes copied out; msg is the message an
\* accepted sys_send stored, and for a sys_recv that returned the oldest
\* message that had been accepted for its caller and not yet returned to
\* it (NoMessage when there was none); "none" for the steps that make no
\* system call
Returned(op, pid, ret, how, cap, out, msg) ==
  [op |-> op, pid |-> pid, ret |-> ret, how |-> how, cap |-> cap, out |-> out,
   msg |-> msg]
Nothing == Returned("none", 0, 0, "returned", 0, << >>, NoMessage)

\* kernel_main before its loop, with schedule() taken as one step
AtCall == [at |-> "call", task |-> NULL, next_task |-> NULL]

\* kernel_main at line 296, about to call schedule()
AtLoop == [at |-> "296", task |-> NULL, next_task |-> NULL]

\* scheduler_init, ipc_init and the zero-filled static storage, kernel_main
\* about to make its first create_task call (interrupts still disabled)
Boot ==
  /\ tasks = [i \in Slots |-> [state |-> TASK_ZOMBIE, pid |-> 0]]
  /\ current_task = NULL
  /\ next_pid = 1
  /\ ready_queue = [i \in Slots |-> NULL]
  /\ ready_queue_head = 0
  /\ ready_queue_tail = 0
  /\ ready_queue_count = 0
  /\ blocked_tasks = [i \in Slots |-> NULL]
  /\ blocked_count = 0
  /\ message_queues = [p \in Slots |-> [m \in MsgIdx |-> ZeroMessage]]
  /\ queue_head = [p \in Slots |-> 0]
  /\ queue_tail = [p \in Slots |-> 0]
  /\ queue_count = [p \in Slots |-> 0]
  /\ pc = [i \in Slots |-> AtUser]
  /\ cpu = "kernel_main"
  /\ dispatched = << >>
  /\ boot = 0
  /\ last = Nothing
  /\ pending = [p \in Pids |-> << >>]
  /\ nops = 0
  /\ vm = VmBoot
  /\ vmlast = NoVmCall
  /\ km = AtCall
  /\ iter = [i \in Slots |-> 0]

\* the initial state of the runs of the kernel as built
InitBoot == Boot /\ budget = MaxOps

\* the initial state of the runs that also call the entry points directly
Init == Boot /\ budget = MaxApiOps

\* the processor runs the user code of current_task
UserRunning ==
  cpu = "task" /\ current_task # NULL /\ pc[current_task].at = "user"

\* the processor runs kernel_main
InKernelMain == cpu = "kernel_main"

\* kernel_main has reached enable_interrupts() and the processor is not
\* inside a system call
InterruptsEnabled ==
  /\ boot = MAX_TASKS
  /\ \/ cpu \in {"kernel_main", "halt"}
     \/ cpu = "task" /\ pc[current_task].at \in {"user", "halt"}

\* the steps that make no system call
Quiet ==
  /\ last' = Nothing
  /\ UNCHANGED << pending, budget, vm, vmlast, km, iter >>

\* the message that sys_send(pid, buf, len) of the current task offers
Offered(pid, buf, len) ==
  [sender_pid |-> CallerPid, receiver_pid |-> pid, size |-> len,
   data |-> Bytes(buf, len)]

\* a sys_send(pid, buf, len) that returned r
Sent(r, pid, buf, len) ==
  /\ UNCHANGED << budget, vm, vmlast, km, iter >>
  /\ IF r.ret >= 0
     THEN /\ last' = Returned("sys_send", CallerPid, r.ret, "returned", 0,
                              << >>, Offered(pid, buf, len))
          /\ pending' = [pending EXCEPT ![pid] =
                           Append(@, Offered(pid, buf, len))]
          /\ nops' = nops + 1
     ELSE /\ last' = Returned("sys_send", CallerPid, r.ret, "failed", 0,
                              << >>, NoMessage)
          /\ UNCHANGED << pending, nops >>

\* a sys_recv with capacity len by the task of pid p that returned r
Got(r, p, len) ==
  /\ UNCHANGED << budget, vm, vmlast, km, iter >>
  /\ last' = Returned("sys_recv", p, r.ret, r.how, len, r.out,
                      IF r.how = "returned" /\ pending[p] # << >>
                      THEN Head(pending[p]) ELSE NoMessage)
  /\ pending' = IF r.how = "returned" /\ pending[p] # << >>
                THEN [pending EXCEPT ![p] = Tail(@)]
                ELSE pending

\* kernel_main lines 277-284: one of its create_task calls
KernelMainCreate ==
  /\ InKernelMain /\ boot < MAX_TASKS
  /\ Commit(create_task(K).k)
  /\ boot' = boot + 1
  /\ UNCHANGED nops
  /\ Quiet

\* kernel_main lines 295-298: schedule() in the main loop
KernelMainSchedule ==
  /\ InKernelMain /\ boot = MAX_TASKS
  /\ Commit(schedule(K))
  /\ UNCHANGED << boot, nops >>
  /\ Quiet

\* IRQ 0
TimerTick ==
  /\ InterruptsEnabled
  /\ Commit(timer_handler(K))
  /\ UNCHANGED << boot, nops >>
  /\ Quiet

\* syscall SYS_SEND from the running task
SysSend ==
  /\ UserRunning
  /\ \E pid \in Pids, buf \in Buffers, len \in SendLens :
     \E g \in CountReads(pid) :
       LET r == sys_send(K, pid, buf, len, g)
       IN /\ r.ret >= 0 => nops < budget
          /\ Commit(r.k) /\ Sent(r, pid, buf, len)
  /\ UNCHANGED boot

\* syscall SYS_RECV from the running task
SysRecv ==
  /\ UserRunning /\ nops < budget
  /\ \E len \in RecvLens, g \in Reads(CallerPid) :
       LET r == sys_recv(K, len, g)
       IN Commit(r.k) /\ Got(r, CallerPid, len)
  /\ nops' = nops + 1
  /\ UNCHANGED boot

\* a task suspended in sys_recv runs again and finishes the call
SysRecvResume ==
  /\ cpu = "task" /\ current_task # NULL /\ pc[current_task].at = "recv"
  /\ \E g \in Reads(CallerPid) :
       LET r == sys_recv_resume(K, g)
       IN Commit(r.k) /\ Got(r, CallerPid, pc[current_task].len)
  /\ UNCHANGED << boot, nops >>

\* syscall SYS_YIELD from the running task
SysYield ==
  /\ UserRunning
  /\ Commit(yield(K))
  /\ UNCHANGED << boot, nops >>
  /\ Quiet

\* syscall SYS_EXIT from the running task
SysExit ==
  /\ UserRunning
  /\ Commit(exit_task(K))
  /\ UNCHANGED << boot, nops >>
  /\ Quiet

\* the kernel as built: kernel_main, the timer and the four system calls
NextBoot ==
  \/ KernelMainCreate
  \/ KernelMainSchedule
  \/ TimerTick
  \/ SysSend
  \/ SysRecv
  \/ SysRecvResume
  \/ SysYield
  \/ SysExit

SpecBoot == InitBoot /\ [][NextBoot]_vars

\* -- the entry points of sched.c and ipc.c that the image never calls on
\* -- these paths, called by kernel code once kernel_main has created its
\* -- tasks

\* create_task after boot, from kernel_main or on behalf of the running task
CallCreateTask ==
  /\ InKernelMain \/ UserRunning
  /\ boot = MAX_TASKS /\ next_pid <= MaxPid
  /\ nops < budget /\ nops' = nops + 1
  /\ Commit(create_task(K).k)
  /\ UNCHANGED boot
  /\ Quiet

\* schedule() on behalf of the running task
CallSchedule ==
  /\ UserRunning
  /\ Commit(schedule(K))
  /\ UNCHANGED << boot, nops >>
  /\ Quiet

\* block_task() on behalf of the running task
CallBlockTask ==
  /\ UserRunning
  /\ Commit(block_task(K))
  /\ nops < budget /\ nops' = nops + 1
  /\ UNCHANGED boot
  /\ Quiet

\* unblock_task(&tasks[t])
CallUnblockTask ==
  /\ InKernelMain \/ UserRunning
  /\ boot = MAX_TASKS
  /\ \E t \in Slots : Commit(unblock_task(K, t))
  /\ nops < budget /\ nops' = nops + 1
  /\ UNCHANGED boot
  /\ Quiet

\* switch_to(&tasks[t])
CallSwitchTo ==
  /\ InKernelMain \/ UserRunning
  /\ boot = MAX_TASKS
  /\ \E t \in Slots : Commit(switch_to(K, t))
  /\ nops < budget /\ nops' = nops + 1
  /\ UNCHANGED boot
  /\ Quiet

\* what the sys_send calls of a broadcast_message can read outside the
\* arrays, per slot of the recipient
BroadcastReads ==
  {g \in [Slots -> {NoGarbage} \cup CountReads(MAX_TASKS)] :
     \A i \in Slots : InArrays(tasks[i].pid) => g[i] = NoGarbage}

\* broadcast_message(buf, len) on behalf of the running task
CallBroadcast ==
  /\ UserRunning
  /\ nops < budget /\ nops' = nops + 1
  /\ \E buf \in Buffers, len \in SendLens, g \in BroadcastReads :
       LET r == broadcast_message(K, buf, len, g)
       IN /\ Commit(r.k)
          /\ last' = Returned("broadcast_message", CallerPid, r.ret,
                              "returned", 0, << >>,
                              Offered(0, buf, len))
          /\ pending' = [p \in Pids |->
                           IF p \in r.accepted
                           THEN Append(pending[p], Offered(p, buf, len))
                           ELSE pending[p]]
  /\ UNCHANGED << boot, budget, vm, vmlast, km, iter >>

\* sys_send called while there is no current task
KernelSend ==
  /\ InKernelMain /\ current_task = NULL
  /\ \E pid \in Pids, buf \in Buffers, len \in SendLens :
     \E g \in CountReads(pid) :
       LET r == sys_send(K, pid, buf, len, g)
       IN Commit(r.k) /\ Sent(r, pid, buf, len)
  /\ UNCHANGED boot

\* sys_recv called while there is no current task
KernelRecv ==
  /\ InKernelMain /\ current_task = NULL
  /\ \E len \in RecvLens :
       LET r == sys_recv(K, len, NoGarbage)
       IN Commit(r.k) /\ Got(r, 0, len)
  /\ UNCHANGED << boot, nops >>

\* the kernel as built plus direct calls of create_task, schedule,
\* block_task, unblock_task, switch_to and broadcast_message, and of the
\* system calls without a current task, in runs of at most MaxApiOps
\* counted calls
Next ==
  \/ NextBoot
  \/ CallCreateTask
  \/ CallSchedule
  \/ CallBlockTask
  \/ CallUnblockTask
  \/ CallSwitchTo
  \/ CallBroadcast
  \/ KernelSend
  \/ KernelRecv

Spec == Init /\ [][Next]_vars

\* the kernel as built under fairness: the timer keeps ticking while
\* interrupts are enabled, and a task that switch_to_asm resumed inside
\* sys_recv runs on to the return of the call
InitLive == Boot /\ budget = MaxLiveOps

Fairness == WF_vars(TimerTick) /\ WF_vars(SysRecvResume)

SpecLive == InitLive /\ [][NextBoot]_vars /\ Fairness

\* -- the virtual memory manager on its own: page faults and evictions
\* -- after paging_init and vm_init; it shares no variable with the
\* -- scheduler and the mailboxes

\* the addresses that fault: the last address below the user range, the
\* first byte of the user range, another byte of the same page, the next
\* page, 0x500000 (the address user programs touch), the last byte of the
\* user range, 0x5FFFFF, and the first address past it
FaultAddrs ==
  {USER_BASE - 1, USER_BASE, USER_BASE + 8, USER_BASE + PAGE_FRAME_SIZE,
   USER_BASE + RegionSize \div 2, USER_STACK_TOP - 1, USER_STACK_TOP}

\* exception 14 with fault address v
PageFault ==
  /\ ~ vm.panicked /\ vm.timestamp < MaxFaults
  /\ \E v \in FaultAddrs :
       LET r == page_fault_handler_c(vm, v)
       IN /\ vm' = r.m
          /\ vmlast' = VmCall("page_fault", v, 0, FALSE, FALSE, r.calls,
                              vmlast)
  /\ UNCHANGED sched_vars

\* evict_lru_page() called on its own
CallEvict ==
  /\ ~ vm.panicked
  /\ vm' = evict_lru_page(vm)
  /\ vmlast' = VmCall("evict", 0, 0, FALSE, FALSE, << >>, vmlast)
  /\ UNCHANGED sched_vars

InitVM == Boot /\ budget = 0

NextVM ==
  \/ PageFault
  \/ CallEvict

SpecVM == InitVM /\ [][NextVM]_vars

\* -- the page tables under direct calls of map_page and unmap_page, after
\* -- paging_init and vm_init; the two functions read and write the page
\* -- tables and next_physical_addr only

\* the addresses mapped and unmapped directly: three pages of the user
\* range (the first of its 2 MiB region, the next, and 0x500000), an
\* address that is not page-aligned, and 0x40000000, the first address
\* whose page-directory-pointer entry paging_init leaves absent
MapAddrs ==
  {USER_BASE, USER_BASE + PAGE_FRAME_SIZE, USER_BASE + RegionSize \div 2,
   USER_BASE + 8, 2 ^ 30}

\* the frame bases mapped directly
MapFrames == {FirstFrame, FirstFrame + PAGE_FRAME_SIZE}

\* map_page(v, p, user, writable) called on its own
CallMapPage ==
  /\ ~ vm.panicked
  /\ \E v \in MapAddrs, p \in MapFrames, user, writable \in BOOLEAN :
       /\ vm' = map_page(vm, v, p, user, writable)
       /\ vmlast' = VmCall("map_page", v, p, user, writable, << >>, vmlast)
  /\ UNCHANGED sched_vars

\* unmap_page(v) called on its own
CallUnmapPage ==
  /\ ~ vm.panicked
  /\ \E v \in MapAddrs :
       /\ vm' = unmap_page(vm, v)
       /\ vmlast' = VmCall("unmap_page", v, 0, FALSE, FALSE, << >>, vmlast)
  /\ UNCHANGED sched_vars

NextMap ==
  \/ CallMapPage
  \/ CallUnmapPage

SpecMap == InitVM /\ [][NextMap]_vars

\* -- kernel_main's loop statement by statement: after enable_interrupts()
\* -- (line 289) kernel_main calls schedule() with interrupts enabled, so
\* -- IRQ 0 can arrive between any two of its stores; the handlers entered
\* -- through the interrupt gates of idt_init run to their end

\* kernel_main's context was left by a switch_to_asm
Gone == [at |-> "gone", task |-> NULL, next_task |-> NULL]

\* one step of kernel_main in the loop of lines 295-298, up to and
\* including its next store to a global: [k, km]; m.at is the line the step
\* starts at, with a for the dequeue_ready of line 106 and b for that of
\* line 113
kernel_main_step(k, m) ==
  LET cur == k.current_task
  IN CASE m.at = "296" ->
            [k |-> k,
             km |-> [m EXCEPT !.at = IF cur = NULL THEN "85a" ELSE "85b"]]
       [] m.at \in {"85a", "85b"} ->
            IF k.ready_queue_count > 0
            THEN [k |-> k,
                  km |-> [m EXCEPT !.task = k.ready_queue[k.ready_queue_head],
                                   !.at = IF m.at = "85a" THEN "87a"
                                          ELSE "87b"]]
            ELSE [k |-> k, km |-> [m EXCEPT !.at = "297"]]
       [] m.at \in {"87a", "87b"} ->
            [k |-> [k EXCEPT !.ready_queue_head =
                               (k.ready_queue_head + 1) % MAX_TASKS],
             km |-> [m EXCEPT !.at = IF m.at = "87a" THEN "88a" ELSE "88b"]]
       [] m.at = "88a" ->
            [k |-> [k EXCEPT !.ready_queue_count = k.ready_queue_count - 1],
             km |-> [m EXCEPT !.at = "106"]]
       [] m.at = "106" ->
            [k |-> [k EXCEPT !.current_task = m.task],
             km |-> [m EXCEPT !.at = "85b"]]
       [] m.at = "88b" ->
            [k |-> [k EXCEPT !.ready_queue_count = k.ready_queue_count - 1],
             km |-> [m EXCEPT !.next_task = m.task, !.at = "96"]]
       [] m.at = "96" ->
            IF cur # NULL /\ k.tasks[cur].state = TASK_RUNNING
            THEN [k |-> [k EXCEPT !.tasks[cur].state = TASK_READY],
                  km |-> [m EXCEPT !.at = "76"]]
            ELSE [k |-> k, km |-> [m EXCEPT !.at = "124"]]
       [] m.at = "76" ->
            IF k.ready_queue_count < MAX_TASKS
            THEN [k |-> [k EXCEPT !.ready_queue[k.ready_queue_tail] = cur],
                  km |-> [m EXCEPT !.at = "78"]]
            ELSE [k |-> k, km |-> [m EXCEPT !.at = "124"]]
       [] m.at = "78" ->
            [k |-> [k EXCEPT !.ready_queue_tail =
                               (k.ready_queue_tail + 1) % MAX_TASKS],
             km |-> [m EXCEPT !.at = "79"]]
       [] m.at = "79" ->
            [k |-> [k EXCEPT !.ready_queue_count = k.ready_queue_count + 1],
             km |-> [m EXCEPT !.at = "124"]]
       [] m.at = "124" ->
            [k |-> [k EXCEPT !.current_task = m.next_task],
             km |-> [m EXCEPT !.at = "125"]]
       [] m.at = "125" ->
            [k |-> [k EXCEPT !.tasks[cur].state = TASK_RUNNING],
             km |-> [m EXCEPT !.at = "128"]]
       [] m.at = "128" ->
            [k |-> switch_to_asm(k, cur), km |-> Gone]
       [] m.at = "297" ->
            [k |-> k, km |-> AtLoop]

\* the steps of SpecIrq that are not system calls leave these alone
QuietIrq ==
  /\ last' = Nothing
  /\ UNCHANGED << boot, nops, pending, budget, vm, vmlast, iter >>

\* kernel_main reaches its loop: line 295
KernelMainLoop ==
  /\ InKernelMain /\ boot = MAX_TASKS /\ km.at = "call"
  /\ km' = AtLoop
  /\ Commit(K)
  /\ QuietIrq

\* kernel_main makes its next step inside the loop
KernelMainStep ==
  /\ InKernelMain /\ boot = MAX_TASKS /\ km.at \notin {"call", "gone"}
  /\ LET r == kernel_main_step(K, km)
     IN Commit(r.k) /\ km' = r.km
  /\ QuietIrq

\* kernel_main is between two statements of schedule()
PartWay == cpu = "kernel_main" /\ km.at \notin {"call", "296", "297", "gone"}

\* IRQ 0, taken wherever interrupts are enabled; a handler that ends in
\* switch_to_asm leaves kernel_main's context behind
TimerTickIrq ==
  /\ InterruptsEnabled
  /\ Commit(timer_handler(K))
  /\ km' = IF cpu = "kernel_main" /\ timer_handler(K).cpu # "kernel_main"
           THEN Gone ELSE km
  /\ QuietIrq

InitIrq == Boot /\ budget = 0

NextIrq ==
  \/ KernelMainCreate
  \/ KernelMainLoop
  \/ KernelMainStep
  \/ TimerTickIrq
  \/ SysYield
  \/ SysExit

SpecIrq == InitIrq /\ [][NextIrq]_vars

\* -- the kernel as built plus get_last_sender_pid and peek_message_size,
\* -- which the image never calls, on behalf of the running task

\* get_last_sender_pid() by the running task; msg is the message the
\* sys_recv of the step before returned to the same task (NoMessage when
\* the step before was no such sys_recv)
CallGetLastSenderPid ==
  /\ UserRunning
  /\ \E g \in Reads(CallerPid) :
       last' = Returned("get_last_sender_pid", CallerPid,
                        get_last_sender_pid(K, g), "returned", 0, << >>,
                        IF last.op = "sys_recv" /\ last.how = "returned"
                             /\ last.pid = CallerPid
                        THEN last.msg ELSE NoMessage)
  /\ Commit(K)
  /\ UNCHANGED << boot, nops, pending, budget, vm, vmlast, km, iter >>

\* peek_message_size() by the running task; msg is the oldest message
\* accepted for it and not yet returned to it
CallPeekMessageSize ==
  /\ UserRunning
  /\ \E g \in Reads(CallerPid) :
       last' = Returned("peek_message_size", CallerPid,
                        peek_message_size(K, g), "returned", 0, << >>,
                        IF pending[CallerPid] # << >>
                        THEN Head(pending[CallerPid]) ELSE NoMessage)
  /\ Commit(K)
  /\ UNCHANGED << boot, nops, pending, budget, vm, vmlast, km, iter >>

\* runs of at most MaxLiveOps counted calls
InitIpc == Boot /\ budget = MaxLiveOps

NextIpc ==
  \/ NextBoot
  \/ CallGetLastSenderPid
  \/ CallPeekMessageSize

SpecIpc == InitIpc /\ [][NextIpc]_vars

\* -- the boot workload: every task created by kernel_main runs the
\* -- hello_world program (_start: HelloYields iterations that end in
\* -- SYS_YIELD, then SYS_EXIT), the timer ticks

\* the steps of the workload leave these alone
QuietHello ==
  /\ last' = Nothing
  /\ UNCHANGED << boot, nops, pending, budget, vm, vmlast, km >>

\* _start, the loop body: syscall(SYS_YIELD, 0, 0, 0) of iteration i
HelloYield ==
  /\ UserRunning
  /\ iter[current_task] < HelloYields
  /\ iter' = [iter EXCEPT ![current_task] = @ + 1]
  /\ Commit(yield(K))
  /\ QuietHello

\* _start after the loop: syscall(SYS_EXIT, 0, 0, 0)
HelloExit ==
  /\ UserRunning
  /\ iter[current_task] = HelloYields
  /\ Commit(exit_task(K))
  /\ UNCHANGED iter
  /\ QuietHello

InitHello == Boot /\ budget = 0

NextHello ==
  \/ KernelMainCreate
  \/ KernelMainSchedule
  \/ TimerTick
  \/ HelloYield
  \/ HelloExit

\* the task in slot t makes the next system call of its program
HelloStep(t) == current_task = t /\ (HelloYield \/ HelloExit)

\* kernel_main runs on to its loop, the timer keeps ticking, and a task
\* that is given the processor again and again gets to its next system
\* call (a time slice is longer than one iteration of _start)
FairHello ==
  /\ WF_vars(KernelMainCreate) /\ WF_vars(KernelMainSchedule)
  /\ WF_vars(TimerTick)
  /\ \A t \in Slots : SF_vars(HelloStep(t))

SpecHello == InitHello /\ [][NextHello]_vars /\ FairHello

(* ---------------- C1 --------------------------------------------------- *)

Running == {i \in Slots : tasks[i].state = TASK_RUNNING}

\* C1: in every state reachable through create_task, schedule, yield,
\* timer_handler, exit_task, block_task, unblock_task, switch_to, sys_send
\* and sys_recv at most one task control block is Running, and a Running
\* one is the task current_task points to.
C1_OneRunning ==
  /\ Cardinality(Running) <= 1
  /\ \A i \in Running : current_task = i

\* a task runs after a direct switch_to/block_task/unblock_task call while
\* another one is Ready and a third is Blocked
C1_Witness ==
  /\ Cardinality(Running) = 1
  /\ \E i \in Slots : tasks[i].state = TASK_READY
  /\ \E i \in Slots : tasks[i].state = TASK_BLOCKED
  /\ nops >= 2

(* ---------------- C2 --------------------------------------------------- *)

\* the entries of the ready ring, from head to tail
ReadyRing ==
  [i \in 1 .. ready_queue_count |->
     ready_queue[(ready_queue_head + i - 1) % MAX_TASKS]]

\* the number of entries of seq that are x
Occurrences(seq, x) == Cardinality({i \in DOMAIN seq : seq[i] = x})

\* C2: in every state reachable from scheduler_init, kernel_main's
\* schedule() calls included, the ready queue holds exactly the tasks whose
\* state is Ready, each exactly once: no Ready task is missing from it and
\* no Running, Blocked or Zombie task is in it.
C2_ReadyQueueExact ==
  /\ \A t \in Slots :
       tasks[t].state = TASK_READY => Occurrences(ReadyRing, t) = 1
  /\ \A i \in DOMAIN ReadyRing :
       ReadyRing[i] # NULL /\ tasks[ReadyRing[i]].state = TASK_READY

(* ---------------- C3 --------------------------------------------------- *)

\* blocked_tasks[0 .. blocked_count)
BlockedList == [i \in 1 .. blocked_count |-> blocked_tasks[i - 1]]

\* C3: in every reachable state the blocked list holds exactly the tasks
\* whose state is Blocked, each exactly once, whether they were blocked by
\* sys_recv or by block_task, and also after a timer tick that arrives
\* while a blocked task is still current_task.
C3_BlockedListExact ==
  /\ \A t \in Slots :
       tasks[t].state = TASK_BLOCKED => Occurrences(BlockedList, t) = 1
  /\ \A i \in DOMAIN BlockedList :
       BlockedList[i] # NULL /\ tasks[BlockedList[i]].state = TASK_BLOCKED

(* ---------------- C4 --------------------------------------------------- *)

\* kernel_main has created its tasks and no task has done anything but
\* yield, be preempted or make a system call that was rejected
YieldOnly ==
  /\ boot = MAX_TASKS
  /\ nops = 0
  /\ \A i \in Slots : tasks[i].state # TASK_ZOMBIE

\* C4: round robin from boot: with the tasks T1..TN created in this order
\* (Ti in slot i - 1) and every task yielding as soon as it is dispatched,
\* the first N dispatches (kernel_main's schedule(), then yields and timer
\* ticks) run each Ti once, in creation order: the i-th dispatch runs Ti.
C4_RoundRobin ==
  YieldOnly => \A i \in 1 .. Len(dispatched) : dispatched[i] = i - 1

(* ---------------- C5 --------------------------------------------------- *)

\* what a sys_recv with capacity cap copies out of message m
Delivery(m, cap) == Bytes(m.data, Min(cap, m.size))

\* C5: FIFO per destination: every sys_recv that returns to a task D
\* returns the oldest message accepted for D by a successful sys_send and
\* not yet returned to D, so that D receives its messages in the order in
\* which they were accepted, for every interleaving of the senders and
\* across the wrap-around of the ring.
C5_Fifo ==
  [][ (last'.op = "sys_recv" /\ last'.how = "returned") =>
        /\ pending[last'.pid] # << >>
        /\ last'.ret = Min(last'.cap, Head(pending[last'.pid]).size)
        /\ last'.out = Delivery(Head(pending[last'.pid]), last'.cap) ]_vars

(* ---------------- C6 --------------------------------------------------- *)

\* the record in front of the tail of the mailbox of dst, queues being
\* message_queues and tails queue_tail: the record the last accepted
\* sys_send to dst wrote
Stored(queues, tails, dst) ==
  queues[dst][(tails[dst] + MAX_IPC_MESSAGES - 1) % MAX_IPC_MESSAGES]

\* C6: round trip: the record a successful sys_send(dst, buf, n) of task S
\* stores carries sender_pid = pid of S and receiver_pid = dst (checked
\* where the mailbox of dst lies in the arrays), and when that message is
\* the only one held for dst, the sys_recv(out, n) of dst that follows
\* returns n with out[0..n) = buf[0..n).
C6_RoundTrip ==
  [][ /\ (last'.op = "sys_send" /\ last'.how = "returned"
            /\ InArrays(last'.msg.receiver_pid)) =>
           LET rec == Stored(message_queues', queue_tail',
                             last'.msg.receiver_pid)
           IN /\ rec.sender_pid = last'.pid
              /\ rec.receiver_pid = last'.msg.receiver_pid
      /\ (last'.op = "sys_recv" /\ last'.how = "returned"
            /\ Len(pending[last'.pid]) = 1
            /\ Head(pending[last'.pid]).size = last'.cap) =>
           /\ last'.ret = last'.cap
           /\ last'.out = Head(pending[last'.pid]).data ]_vars

(* ---------------- C7 --------------------------------------------------- *)

\* the processor is in sys_recv of a task that blocked there and was
\* resumed by switch_to_asm: its next step is the dequeue of lines 101-114
Resumed ==
  cpu = "task" /\ current_task # NULL /\ pc[current_task].at = "recv"

\* C7: a sys_recv issued on an empty mailbox never completes before a
\* message has arrived: whenever sys_recv returns, a message accepted for
\* the caller was outstanding, and whenever a task that blocked in sys_recv
\* resumes and dequeues, messages are held for it and its mailbox count is
\* greater than 0.
C7_RecvWaitsForMessage ==
  [][ /\ (last'.op = "sys_recv" /\ last'.how = "returned") =>
           pending[last'.pid] # << >>
      /\ (Resumed /\ last'.op = "sys_recv") =>
           /\ pending[CallerPid] # << >>
           /\ InArrays(CallerPid) => queue_count[CallerPid] > 0 ]_vars

(* ---------------- C8 --------------------------------------------------- *)

\* the task of slot r is suspended in sys_recv and the sys_send of another
\* task to it has just been accepted
RecvWaiting(r) ==
  /\ pc[r].at = "recv"
  /\ last.op = "sys_send" /\ last.how = "returned"
  /\ last.msg.receiver_pid = tasks[r].pid
  /\ last.pid # tasks[r].pid

\* the sys_recv of the task of slot r has returned
RecvReturned(r) ==
  /\ last.op = "sys_recv" /\ last.how = "returned"
  /\ last.pid = tasks[r].pid

\* a step in which a task resumed in sys_recv returns the oldest message
\* accepted for it: its size (up to the capacity given) and its payload
ResumedDelivery ==
  (Resumed /\ last'.op = "sys_recv") =>
    /\ last'.msg # NoMessage
    /\ last'.ret = Min(last'.cap, last'.msg.size)
    /\ last'.out = Delivery(last'.msg, last'.cap)

\* C8: wake-up of a blocked receiver: when task R is blocked in sys_recv
\* and another task's sys_send to R is accepted, then (the timer ticking
\* and resumed tasks running on) R is eventually dispatched and its
\* sys_recv returns, and what it returns is the size and the payload of
\* that message.
C8_WakeUp ==
  /\ \A r \in Slots : RecvWaiting(r) ~> RecvReturned(r)
  /\ [][ResumedDelivery]_vars

(* ---------------- C9 --------------------------------------------------- *)

\* sys_send or sys_recv can be called in this state
CanCall == UserRunning \/ (InKernelMain /\ current_task = NULL)

\* the conditions under which sys_send(pid, buf, len) is to succeed: a
\* current task exists, the length fits, pid is the PID of a task that is
\* not a Zombie, and fewer than MAX_IPC_MESSAGES messages are held for pid
SendOk(pid, len) ==
  /\ current_task # NULL
  /\ len <= MAX_MESSAGE_SIZE
  /\ \E i \in Slots : tasks[i].pid = pid /\ tasks[i].state # TASK_ZOMBIE
  /\ Len(pending[pid]) < MAX_IPC_MESSAGES

\* the PIDs of the tasks that have exited
ExitedPids ==
  {tasks[i].pid : i \in {j \in Slots : tasks[j].state = TASK_ZOMBIE
                                          /\ tasks[j].pid # 0}}

\* C9: sys_send(dst_pid, buf, len) succeeds, returning len, exactly when a
\* current task exists, len <= MAX_MESSAGE_SIZE, dst_pid is the PID of a
\* task that is not a Zombie and the mailbox of dst_pid holds fewer than
\* MAX_IPC_MESSAGES messages; len = MAX_MESSAGE_SIZE + 1 fails, and so does
\* a send to PID 0 or to the PID of a task that has exited.
C9_SendSucceedsExactlyWhen ==
  CanCall =>
    \A pid \in Pids, buf \in Buffers, len \in SendLens :
      \A g \in CountReads(pid) :
        LET r == sys_send(K, pid, buf, len, g)
        IN /\ SendOk(pid, len) <=> r.ret = len
           /\ r.ret = len \/ r.ret < 0
           /\ (len = MAX_MESSAGE_SIZE + 1) => r.ret < 0
           /\ (pid = 0 \/ pid \in ExitedPids) => r.ret < 0

(* ---------------- C10 -------------------------------------------------- *)

\* the reasons for which sys_send(pid, buf, len) is to be rejected
Rejected(pid, len) == ~ SendOk(pid, len)

\* C10: a rejected sys_send (invalid length, unknown or Zombie destination,
\* full mailbox, no current task) returns a negative value and leaves the
\* mailboxes, the ready queue, the blocked list, the task states and
\* current_task unchanged; every sys_send that is accepted and every
\* sys_recv that returns a message returns a non-negative value.
C10_ErrorsNegativeAndHarmless ==
  CanCall =>
    /\ \A pid \in Pids, buf \in Buffers, len \in SendLens :
         \A g \in CountReads(pid) :
           LET r == sys_send(K, pid, buf, len, g)
           IN /\ Rejected(pid, len) => r.ret < 0
              /\ r.ret < 0 => r.k = K
    /\ \A len \in RecvLens, g \in Reads(CallerPid) :
         LET r == sys_recv(K, len, g)
         IN r.how = "returned" => r.ret >= 0

(* ---------------- C11 -------------------------------------------------- *)

\* the lengths a sys_send accepts
FitLens == {len \in SendLens : len <= MAX_MESSAGE_SIZE}

\* MAX_IPC_MESSAGES messages are held for pid: accepted and not yet
\* returned to its task
MailboxFull(pid) == Len(pending[pid]) = MAX_IPC_MESSAGES

\* C11: after any sequence of sys_send, sys_recv, yield, timer ticks,
\* exit_task and kernel_main's create_task calls every mailbox count lies in
\* 0..MAX_IPC_MESSAGES; a send to a mailbox that holds MAX_IPC_MESSAGES
\* messages is rejected, and once the owner of such a mailbox has made one
\* sys_recv a further send to it is accepted.
C11_CountBounds ==
  /\ \A p \in DOMAIN queue_count :
       queue_count[p] >= 0 /\ queue_count[p] <= MAX_IPC_MESSAGES
  /\ CanCall =>
       \A pid \in Pids, buf \in Buffers, len \in FitLens :
         \A g \in CountReads(pid) :
           MailboxFull(pid) => sys_send(K, pid, buf, len, g).ret < 0
  /\ (UserRunning /\ MailboxFull(CallerPid)) =>
       \A cap \in RecvLens, buf \in Buffers, len \in FitLens :
         \A g \in Reads(CallerPid) :
           LET r == sys_recv(K, cap, g)
               s == sys_send(r.k, CallerPid, buf, len, g)
           IN r.how = "returned" /\ s.ret = len

(* ---------------- C12 -------------------------------------------------- *)

RingOf(k) ==
  [i \in 1 .. k.ready_queue_count |->
     k.ready_queue[(k.ready_queue_head + i - 1) % MAX_TASKS]]

\* the slots create_task can take
ZombieSlots == {i \in Slots : tasks[i].state = TASK_ZOMBIE}

\* create_task can be called in this state: by kernel_main or on behalf of
\* the running task
CanCreate == InKernelMain \/ UserRunning

\* C13: create_task succeeds exactly when some slot is Zombie: it then
\* returns the new PID (next_pid, which advances by one), the slot taken is
\* Ready with that PID and stands at the tail of the ready queue behind
\* the entries that were queued; without a Zombie slot it returns a
\* negative value and changes no state.  So the MAX_TASKS creations of a
\* boot succeed, the next one fails, and one more succeeds after an exit.
C13_CreateTask ==
  CanCreate =>
    LET r == create_task(K)
    IN IF ZombieSlots = {}
       THEN r.ret < 0 /\ r.k = K
       ELSE /\ r.ret = next_pid /\ r.ret > 0
            /\ r.k.next_pid = next_pid + 1
            /\ \E t \in ZombieSlots :
                 /\ r.k.tasks = [tasks EXCEPT ![t] =
                                    [state |-> TASK_READY, pid |-> r.ret]]
                 /\ RingOf(r.k) = Append(ReadyRing, t)

\* a task has exited and a creation after boot has taken its slot
C13_Witness ==
  /\ boot = MAX_TASKS
  /\ next_pid = MAX_TASKS + 2
  /\ \E t \in Slots : tasks[t] = [state |-> TASK_READY, pid |-> MAX_TASKS + 1]

(* ---------------- C14 -------------------------------------------------- *)

\* the tasks that are not Zombies
Live == {i \in Slots : tasks[i].state # TASK_ZOMBIE}

\* a step that issues a PID: next_pid advances by one, the PID issued is the
\* old next_pid, it goes to a slot that was Zombie and it is greater than
\* every PID in the task table; no other step changes a PID or next_pid
IssuesFreshPid ==
  /\ next_pid' >= next_pid
  /\ next_pid' # next_pid =>
       /\ next_pid' = next_pid + 1
       /\ \E t \in Slots : /\ tasks[t].state = TASK_ZOMBIE
                            /\ tasks'[t].pid = next_pid
                            /\ tasks'[t].state # TASK_ZOMBIE
       /\ \A i \in Slots : tasks[i].pid < next_pid
  /\ \A t \in Slots :
       tasks'[t].pid # tasks[t].pid =>
         next_pid' # next_pid /\ tasks'[t].pid = next_pid

\* C14: PIDs are issued strictly increasing and never reused, across
\* create_task and exit_task and the reuse of slots: every PID create_task
\* issues is next_pid, which never decreases and lies above every PID
\* issued before; no two tasks that are not Zombies share a PID and none of
\* them has PID 0.
C14_PidsFresh ==
  /\ [](\A i \in Live : tasks[i].pid # 0)
  /\ [](\A i \in Live, j \in Live : tasks[i].pid = tasks[j].pid => i = j)
  /\ [](\A i \in Slots : tasks[i].pid < next_pid)
  /\ [][IssuesFreshPid]_vars

\* the slot of a task that exited holds a new task whose PID is beyond the
\* boot PIDs, next to tasks created at boot
C14_Witness ==
  \E t \in Live, u \in Live :
    /\ tasks[t].pid = MAX_TASKS + 1
    /\ tasks[u].pid <= MAX_TASKS
    /\ t < u

(* ---------------- C15 -------------------------------------------------- *)

\* the step takes the task of slot t from the ready ring: t stood at
\* position n and head has advanced past it
Dequeued(t) ==
  \E n \in 1 .. ready_queue_count :
    /\ ReadyRing[n] = t
    /\ ready_queue_head' = (ready_queue_head + n) % MAX_TASKS

\* after the step the task of slot t is the last entry of the ready ring
AtTail(t) ==
  /\ ready_queue_count' > 0
  /\ ReadyRing'[ready_queue_count'] = t

\* the step is a sys_send that is accepted (returned) or a sys_recv that
\* suspends its caller (blocked)
CallStep(op, how) == last'.op = op /\ last'.how = how

\* the change of state that the step makes to the task of slot t is an
\* edge of the state machine, made by the operation the edge belongs to
Edge(t) ==
  LET from == tasks[t].state
      to == tasks'[t].state
  IN \/ from = to
     \/ /\ from = TASK_ZOMBIE /\ to = TASK_READY
        /\ next_pid' = next_pid + 1 /\ tasks'[t].pid = next_pid
     \/ /\ from = TASK_READY /\ to = TASK_RUNNING
        /\ Dequeued(t) /\ current_task' = t
     \/ /\ from = TASK_RUNNING /\ to = TASK_READY
        /\ current_task = t
        /\ SysYield \/ TimerTick
        /\ AtTail(t)
     \/ /\ from = TASK_RUNNING /\ to = TASK_BLOCKED
        /\ current_task = t
        /\ CallStep("sys_recv", "blocked")
        /\ InArrays(tasks[t].pid) => queue_count[tasks[t].pid] = 0
     \/ /\ from = TASK_RUNNING /\ to = TASK_ZOMBIE
        /\ current_task = t
        /\ SysExit
     \/ /\ from = TASK_BLOCKED /\ to = TASK_READY
        /\ CallStep("sys_send", "returned")
        /\ last'.msg.receiver_pid = tasks[t].pid
        /\ AtTail(t)

\* a task that is Blocked or a Zombie gains no entry in the ready ring by a
\* step other than the create_task or the accepted sys_send that makes it
\* Ready
NotReEnqueued(t) ==
  (tasks[t].state \in {TASK_BLOCKED, TASK_ZOMBIE}
     /\ Occurrences(ReadyRing', t) > Occurrences(ReadyRing, t)) =>
    \/ tasks[t].state = TASK_ZOMBIE /\ next_pid' = next_pid + 1
    \/ /\ tasks[t].state = TASK_BLOCKED
       /\ CallStep("sys_send", "returned")
       /\ last'.msg.receiver_pid = tasks[t].pid

\* C15: every change of a task's state is an edge of the per-task state
\* machine: Zombie -> Ready only by create_task; Ready -> Running only by
\* being dequeued from the ready queue and dispatched; Running -> Ready by
\* yield or preemption, Running -> Blocked by sys_recv on an empty mailbox,
\* Running -> Zombie by exit; Blocked -> Ready only by a sys_send addressed
\* to the task (never by yield or a timer tick); and no scheduling decision
\* puts a Blocked or Zombie task back into the ready queue.
C15_StateMachine ==
  [][\A t \in Slots : Edge(t) /\ NotReEnqueued(t)]_vars

(* ---------------- C16 -------------------------------------------------- *)

\* seq without its entries that are x
Without(seq, x) == SelectSeq(seq, LAMBDA e : e # x)

\* the slot of the destination of the sys_send that the step makes
Destination == get_task_by_pid(K, last'.msg.receiver_pid)

\* what an accepted sys_send does to the scheduler: the sender stays the
\* running current task; a Blocked destination leaves the blocked list,
\* becomes Ready and is appended to the ready ring; otherwise task states,
\* ready ring and blocked list stay as they are
SendEffect ==
  LET dst == Destination
  IN /\ current_task' = current_task
     /\ tasks[current_task].state = TASK_RUNNING
     /\ tasks'[current_task].state = TASK_RUNNING
     /\ cpu' = cpu /\ pc' = pc
     /\ IF tasks[dst].state = TASK_BLOCKED
        THEN /\ tasks' = [tasks EXCEPT ![dst].state = TASK_READY]
             /\ ReadyRing' = Append(ReadyRing, dst)
             /\ BlockedList' = Without(BlockedList, dst)
        ELSE /\ tasks' = tasks
             /\ ReadyRing' = ReadyRing
             /\ BlockedList' = BlockedList

\* C16: a successful sys_send makes no context switch: current_task and the
\* sender's Running state are the same before and after the call; a
\* destination that was Blocked is removed from the blocked list, set Ready
\* and placed at the tail of the ready queue behind every task already
\* queued; when the destination was not Blocked the ready queue and the
\* blocked list are unchanged.
C16_SendNoSwitch ==
  [][CallStep("sys_send", "returned") => SendEffect]_vars

(* ---------------- C17 -------------------------------------------------- *)

\* the step is a sys_recv that returns while a message is held for its
\* caller; last'.msg is the oldest such message, the head of the mailbox
RecvOfHeld ==
  /\ CallStep("sys_recv", "returned")
  /\ pending[last'.pid] # << >>

\* what such a sys_recv with capacity cap does with the head message m of
\* size s: it returns min(cap, s), copies that many leading bytes of m and
\* no more, and takes the whole record out of the mailbox
Truncation ==
  LET p == last'.pid
      m == last'.msg
      n == Min(last'.cap, m.size)
  IN /\ last'.ret = n
     /\ last'.out = Bytes(m.data, n)
     /\ InArrays(p) =>
          /\ message_queues[p][queue_head[p]].size = m.size
          /\ queue_count'[p] = queue_count[p] - 1
          /\ queue_head'[p] = (queue_head[p] + 1) % MAX_IPC_MESSAGES
          /\ queue_tail'[p] = queue_tail[p]

\* C17: truncation: sys_recv(buf, capacity) on a head message of stored
\* size s returns min(capacity, s), copies exactly that many leading
\* payload bytes and removes the whole message slot (count decreases by
\* one, head advances by one modulo MAX_IPC_MESSAGES), so that the bytes
\* beyond capacity are not returned by a later sys_recv, which finds the
\* next message at head.
C17_Truncation ==
  [][RecvOfHeld => Truncation]_vars

(* ---------------- C18 -------------------------------------------------- *)

\* the PIDs for which the step has stored a message
Accepting == {p \in Pids : pending'[p] # pending[p]}

\* the tasks a broadcast of the current task addresses
Recipients == {i \in Live : tasks[i].pid # CallerPid}

\* what broadcast_message(msg, len) does: every recipient whose mailbox
\* has room gets the message when len fits, the value returned is the
\* number of mailboxes that accepted it, and the caller's own mailbox stays
\* as it is
BroadcastEffect ==
  /\ last'.ret = Cardinality(Accepting)
  /\ \A i \in Recipients :
       LET p == tasks[i].pid
       IN InArrays(p) =>
            IF last'.msg.size <= MAX_MESSAGE_SIZE
                 /\ queue_count[p] < MAX_IPC_MESSAGES
            THEN /\ p \in Accepting
                 /\ queue_count'[p] = queue_count[p] + 1
                 /\ Stored(message_queues', queue_tail', p).sender_pid =
                      CallerPid
            ELSE /\ p \notin Accepting
                 /\ queue_count'[p] = queue_count[p]
  /\ CallerPid \notin Accepting
  /\ InArrays(CallerPid) =>
       /\ message_queues'[CallerPid] = message_queues[CallerPid]
       /\ queue_count'[CallerPid] = queue_count[CallerPid]
       /\ queue_head'[CallerPid] = queue_head[CallerPid]
       /\ queue_tail'[CallerPid] = queue_tail[CallerPid]

\* C18: broadcast_message(msg, len) attempts a send to every task that is
\* not a Zombie and not the caller and returns exactly the number of
\* recipients whose mailbox accepted the message, for every len in
\* 0..MAX_MESSAGE_SIZE; the caller's own mailbox is unchanged and the
\* deliveries made are kept when another recipient rejects.
C18_Broadcast ==
  [][CallStep("broadcast_message", "returned") => BroadcastEffect]_vars

(* ---------------- C19 -------------------------------------------------- *)

\* the descriptors of m whose virtual address lies in the page of v
DescriptorsOf(m, v) ==
  {i \in DOMAIN m.page_frames :
     FrameOf(m.page_frames[i].virtual_addr) = FrameOf(v)}

\* the step is a page fault at a user address in whose page no descriptor
\* lies
FaultOnUnmapped ==
  /\ vmlast'.op = "page_fault"
  /\ vmlast'.addr >= USER_BASE /\ vmlast'.addr < USER_STACK_TOP
  /\ DescriptorsOf(vm, vmlast'.addr) = {}

\* what the handler leaves for the address v of the fault: one descriptor
\* for the page of v, clean, accessed, with the newest ordinal; an entry
\* with Present, User and Writable; and a translation of v into the frame
\* of that descriptor (its base for a page-aligned v)
DemandPaged ==
  LET v == vmlast'.addr
      entry == vm'.pd[pd_index(v)]
  IN /\ Cardinality(DescriptorsOf(vm', v)) = 1
     /\ Len(vm'.page_frames) <= MAX_PHYSICAL_PAGES
     /\ \A i \in DescriptorsOf(vm', v) :
          LET d == vm'.page_frames[i]
          IN /\ d.dirty = FALSE /\ d.accessed = TRUE
             /\ d.last_access > vm.timestamp
             /\ \A j \in DOMAIN vm'.page_frames :
                  j # i => vm'.page_frames[j].last_access < d.last_access
             /\ get_physical_address(vm', v)
                  = d.physical_addr + (v % PAGE_FRAME_SIZE)
     /\ HasFlag(entry, PTE_PRESENT)
     /\ HasFlag(entry, PTE_USER)
     /\ HasFlag(entry, PTE_WRITABLE)

\* C19: demand paging: after the page-fault handler has run for a user
\* address v that was not mapped, exactly one descriptor exists for the
\* page of v, with dirty = false, accessed = true and a fresh LRU ordinal,
\* the page is mapped Present + User + Writable, and get_physical_address(v)
\* returns the frame recorded in that descriptor (its base for v =
\* 0x500000).
C19_DemandPaging ==
  [][FaultOnUnmapped => DemandPaged]_vars

(* ---------------- C20 -------------------------------------------------- *)

\* the entry that the walk of virtual_addr reaches, 0 when one of the
\* levels above it is not present
WalkEntry(m, virtual_addr) ==
  IF ~ HasFlag(m.pml4[pml4_index(virtual_addr)], PTE_PRESENT) THEN 0
  ELSE IF ~ HasFlag(m.pdpt[pdp_index(virtual_addr)], PTE_PRESENT) THEN 0
  ELSE PdAt(m, FrameOf(m.pdpt[pdp_index(virtual_addr)]))[pd_index(virtual_addr)]

\* C20: after any sequence of user-range page faults and evictions, for
\* every descriptor D of page_frames[0 .. page_frame_count) the page-table
\* walk of D.virtual_addr reaches an entry that is Present, User and
\* Writable and whose frame address is D.physical_addr, also when several
\* descriptors lie in the same 2 MiB region.
C20_DescriptorsMapped ==
  \A i \in DOMAIN vm.page_frames :
    LET d == vm.page_frames[i]
        entry == WalkEntry(vm, d.virtual_addr)
    IN /\ HasFlag(entry, PTE_PRESENT)
       /\ HasFlag(entry, PTE_USER)
       /\ HasFlag(entry, PTE_WRITABLE)
       /\ FrameOf(entry) = d.physical_addr

(* ---------------- C21 -------------------------------------------------- *)

\* the user addresses of the model
UserAddrs == {v \in FaultAddrs : v >= USER_BASE /\ v < USER_STACK_TOP}

\* the walk of v reaches an entry that maps it for user mode
MappedForUser(m, v) ==
  /\ HasFlag(WalkEntry(m, v), PTE_PRESENT)
  /\ HasFlag(WalkEntry(m, v), PTE_USER)

\* C21: after any sequence of page faults at arbitrary user addresses,
\* every descriptor's virtual address is aligned to 4 KiB, no two
\* descriptors cover the same 4 KiB virtual page, and every mapped user
\* page is represented by exactly one descriptor.
C21_DescriptorsPerPage ==
  /\ \A i \in DOMAIN vm.page_frames :
       vm.page_frames[i].virtual_addr % PAGE_FRAME_SIZE = 0
  /\ \A i, j \in DOMAIN vm.page_frames :
       i # j => FrameOf(vm.page_frames[i].virtual_addr)
                  # FrameOf(vm.page_frames[j].virtual_addr)
  /\ \A v \in UserAddrs :
       MappedForUser(vm, v) => Cardinality(DescriptorsOf(vm, v)) = 1

(* ---------------- C22 -------------------------------------------------- *)

\* the step is map_page(v, p, user, writable) for a page-aligned v of the
\* user range
MapOfUserPage ==
  /\ vmlast'.op = "map_page"
  /\ vmlast'.addr >= USER_BASE /\ vmlast'.addr < USER_STACK_TOP
  /\ vmlast'.addr % PAGE_FRAME_SIZE = 0

\* the translation of v is p, and the entry of v carries the flags of the
\* call
MapRoundTrip ==
  LET entry == WalkEntry(vm', vmlast'.addr)
  IN /\ get_physical_address(vm', vmlast'.addr) = vmlast'.phys
     /\ HasFlag(entry, PTE_PRESENT)
     /\ HasFlag(entry, PTE_WRITABLE) <=> vmlast'.writable
     /\ HasFlag(entry, PTE_USER) <=> vmlast'.user
     /\ HasFlag(entry, PTE_GLOBAL) <=> ~ vmlast'.user

\* C22: map/translate round trip: for every page-aligned virtual address v
\* of the user range and every frame base p, after map_page(v, p, user,
\* writable) get_physical_address(v) returns p, and the entry carries
\* Present, Writable iff writable, User iff user, and Global iff not user.
C22_MapTranslate ==
  [][MapOfUserPage => MapRoundTrip]_vars

(* ---------------- C23 -------------------------------------------------- *)

\* the page-table entries of m
PageTables(m) == << m.pml4, m.pdpt, m.pd, m.pds >>

\* one of the table entries above the page directory of virtual_addr is
\* absent
IntermediateAbsent(m, virtual_addr) ==
  \/ ~ HasFlag(m.pml4[pml4_index(virtual_addr)], PTE_PRESENT)
  \/ ~ HasFlag(m.pdpt[pdp_index(virtual_addr)], PTE_PRESENT)

\* the step is unmap_page(v) and the step before it was map_page(v, ...)
UnmapAfterMap ==
  /\ vmlast'.op = "unmap_page"
  /\ vmlast.op = "map_page"
  /\ vmlast.addr = vmlast'.addr

\* the step is unmap_page(v) for a v with an intermediate entry absent
UnmapOfAbsent ==
  /\ vmlast'.op = "unmap_page"
  /\ IntermediateAbsent(vm, vmlast'.addr)

\* C23: map/unmap round trip: for every virtual address v, after
\* map_page(v, p, ...) followed by unmap_page(v), get_physical_address(v)
\* returns 0 (Unmapped); unmap_page on an address whose intermediate table
\* entry is absent returns without changing any page-table entry.
C23_MapUnmap ==
  [][/\ UnmapAfterMap => get_physical_address(vm', vmlast'.addr) = 0
     /\ UnmapOfAbsent => PageTables(vm') = PageTables(vm)]_vars

\* unmap_page(0x401000) has followed map_page(0x401000, ...) and the
\* address translates to 0, while the page-directory-pointer entry of
\* 0x40000000 is still absent
C23_Witness ==
  /\ vmlast.op = "unmap_page" /\ vmlast.prev_op = "map_page"
  /\ vmlast.addr = USER_BASE + PAGE_FRAME_SIZE
  /\ vmlast.prev_addr = vmlast.addr
  /\ get_physical_address(vm, vmlast.addr) = 0
  /\ IntermediateAbsent(vm, 2 ^ 30)

(* ---------------- C24 -------------------------------------------------- *)

\* the step is a page fault at a user address of a page without descriptor
\* while the descriptor set is full
FaultWhenFull ==
  /\ FaultOnUnmapped
  /\ Len(vm.page_frames) = MAX_PHYSICAL_PAGES

\* seq without its element at index i
RemoveAt(seq, i) ==
  [j \in 1 .. (Len(seq) - 1) |-> IF j < i THEN seq[j] ELSE seq[j + 1]]

\* the descriptor at lru of the old set has the smallest last_access, it is
\* the one descriptor removed, and the descriptor of the fault is the one
\* added
EvictsOldest(lru) ==
  /\ \A j \in DOMAIN vm.page_frames :
       j # lru => vm.page_frames[lru].last_access
                    < vm.page_frames[j].last_access
  /\ Len(vm'.page_frames) = MAX_PHYSICAL_PAGES
  /\ RemoveAt(vm'.page_frames, MAX_PHYSICAL_PAGES)
       = RemoveAt(vm.page_frames, lru)
  /\ vm'.page_frames[MAX_PHYSICAL_PAGES].virtual_addr = vmlast'.addr

\* C24: LRU eviction: when the descriptor set is full and a fault arrives
\* for a new virtual page V, evict_lru_page removes exactly the descriptor
\* whose last_access ordinal is the smallest in the set, that page's
\* translation is cleared, and afterwards V has a descriptor and is mapped.
C24_LruEviction ==
  [][FaultWhenFull =>
       \E lru \in DOMAIN vm.page_frames :
         /\ EvictsOldest(lru)
         /\ get_physical_address(vm', vm.page_frames[lru].virtual_addr) = 0
         /\ MappedForUser(vm', vmlast'.addr)]_vars

(* ---------------- C25 -------------------------------------------------- *)

\* the calls of a fault that allocates at once, and of one that evicts and
\* retries with success
AllocatedAtOnce == << Called("allocate_page", 0) >>
EvictedAndRetried ==
  << Called("allocate_page", 0 - 1), Called("evict_lru_page", 0),
     Called("allocate_page", 0) >>

\* a fault on a new page: no eviction while the set is not full, one
\* eviction and one successful retry when it is full
FaultOnNewPage ==
  FaultOnUnmapped =>
    IF Len(vm.page_frames) < MAX_PHYSICAL_PAGES
    THEN /\ vmlast'.calls = AllocatedAtOnce
         /\ Len(vm'.page_frames) = Len(vm.page_frames) + 1
         /\ \A i \in DOMAIN vm.page_frames :
              vm'.page_frames[i] = vm.page_frames[i]
    ELSE /\ vmlast'.calls = EvictedAndRetried
         /\ Len(vm'.page_frames) = MAX_PHYSICAL_PAGES
         /\ DescriptorsOf(vm', vmlast'.addr) # {}

\* C25: the descriptor count stays within 0..MAX_PHYSICAL_PAGES in every
\* reachable state; a fault on a new page evicts nothing while the set is
\* not full, and once the set is full each fault on a further distinct page
\* triggers exactly one eviction followed by exactly one successful retry
\* of allocate_page.
C25_CountAndEviction ==
  /\ [](Len(vm.page_frames) \in 0 .. MAX_PHYSICAL_PAGES)
  /\ [][FaultOnNewPage]_vars

\* a fault on a third distinct page has evicted and retried, after two
\* faults that allocated at once
C25_Witness ==
  /\ vmlast.op = "page_fault"
  /\ vmlast.calls = EvictedAndRetried
  /\ Len(vm.page_frames) = MAX_PHYSICAL_PAGES
  /\ vm.timestamp = MAX_PHYSICAL_PAGES + 1
  /\ DescriptorsOf(vm, vmlast.addr) # {}

(* ---------------- C26 -------------------------------------------------- *)

\* the step is a page fault at an address outside the user range
FaultOutside ==
  /\ vmlast'.op = "page_fault"
  /\ vmlast'.addr < USER_BASE \/ vmlast'.addr >= USER_STACK_TOP

\* the kernel has panicked and the descriptors, the frame pointer and the
\* page tables are as before
Fatal ==
  /\ vm'.panicked
  /\ vmlast'.calls = << Called("panic", 0) >>
  /\ vm'.page_frames = vm.page_frames
  /\ vm'.next_physical_addr = vm.next_physical_addr
  /\ PageTables(vm') = PageTables(vm)

\* the step is a page fault at the first or at the last byte of the user
\* range
FaultAtEdge ==
  /\ vmlast'.op = "page_fault"
  /\ vmlast'.addr \in {USER_BASE, USER_STACK_TOP - 1}

\* the fault was handled: no panic, the last call of the handler is an
\* allocate_page that returned 0, and the address has a descriptor, marked
\* accessed with the newest ordinal
Serviced ==
  /\ ~ vm'.panicked
  /\ vmlast'.calls # << >>
  /\ vmlast'.calls[Len(vmlast'.calls)] = Called("allocate_page", 0)
  /\ \E i \in DOMAIN vm'.page_frames :
       /\ vm'.page_frames[i].virtual_addr = vmlast'.addr
       /\ vm'.page_frames[i].accessed
       /\ vm'.page_frames[i].last_access = vm'.timestamp

\* C26: a page fault at an address below USER_BASE or at or above
\* USER_STACK_TOP is fatal: the kernel enters the panic state and stays in
\* it forever, and no descriptor is created, no frame is claimed and no
\* page-table entry is changed; faults at 0x400000 and 0x5FFFFF are
\* serviced.
C26_FatalOutsideRange ==
  /\ [][FaultOutside => Fatal]_vars
  /\ [][~ vm.panicked]_vars
  /\ [][FaultAtEdge => Serviced]_vars

\* the kernel has panicked on a fault at USER_STACK_TOP after it serviced
\* the faults at 0x400000 and 0x5FFFFF
C26_Witness ==
  /\ vm.panicked
  /\ vmlast.op = "page_fault" /\ vmlast.addr = USER_STACK_TOP
  /\ Len(vm.page_frames) = 2
  /\ vm.page_frames[1].virtual_addr = USER_BASE
  /\ vm.page_frames[2].virtual_addr = USER_STACK_TOP - 1

(* ---------------- C30 -------------------------------------------------- *)

\* the step is a page fault at a user address in whose page a descriptor
\* lies
FaultOnMapped ==
  /\ vmlast'.op = "page_fault"
  /\ vmlast'.addr >= USER_BASE /\ vmlast'.addr < USER_STACK_TOP
  /\ DescriptorsOf(vm, vmlast'.addr) # {}

\* the descriptors of the page are marked accessed with a new, larger
\* ordinal, and nothing else changes
RefreshOnly ==
  /\ vmlast'.calls = AllocatedAtOnce
  /\ Len(vm'.page_frames) = Len(vm.page_frames)
  /\ \A i \in DOMAIN vm.page_frames :
       IF i \in DescriptorsOf(vm, vmlast'.addr)
       THEN /\ vm'.page_frames[i].last_access > vm.timestamp
            /\ vm'.page_frames[i] =
                 [vm.page_frames[i] EXCEPT
                    !.accessed = TRUE,
                    !.last_access = vm'.page_frames[i].last_access]
       ELSE vm'.page_frames[i] = vm.page_frames[i]
  /\ vm'.next_physical_addr = vm.next_physical_addr
  /\ PageTables(vm') = PageTables(vm)

\* C30: a page fault on a virtual page that already has a descriptor only
\* sets that descriptor's accessed flag and refreshes its last_access to a
\* new, larger ordinal: no descriptor is added or removed, no physical frame
\* is claimed, no page-table entry is rewritten, and no eviction occurs even
\* when the set is full.
C30_RefaultRefreshesOnly ==
  [][FaultOnMapped => RefreshOnly]_vars

(* ---------------- C28 -------------------------------------------------- *)

\* the PIDs that have a mailbox: the rows of the arrays and every PID that
\* create_task has issued
MailboxPids == {p \in Pids : InArrays(p) \/ (p >= 1 /\ p < next_pid)}

\* C28: message conservation: in every reachable state, for each mailbox,
\* the count (as the kernel reads it) equals the number of sends accepted
\* into it minus the number of receives completed from it, that is the
\* number of messages accepted for its task and not yet returned to it; the
\* sum over the mailboxes is then the number of messages in flight.
C28_Conservation ==
  \A p \in MailboxPids :
    \A g \in CountReads(p) :
      read_count(K, p, g) = Len(pending[p])

(* ---------------- C29 -------------------------------------------------- *)

\* the mailbox of row p is after the step what it was before
MailboxKept(p) ==
  /\ message_queues'[p] = message_queues[p]
  /\ queue_head'[p] = queue_head[p]
  /\ queue_tail'[p] = queue_tail[p]
  /\ queue_count'[p] = queue_count[p]

\* a sys_send changes no mailbox but that of its destination (none when it
\* fails)
SendIsolated ==
  last'.op = "sys_send" =>
    \A p \in DOMAIN queue_count :
      (last'.how = "failed" \/ p # last'.msg.receiver_pid) => MailboxKept(p)

\* a sys_recv changes no mailbox but that of its caller
RecvIsolated ==
  last'.op = "sys_recv" =>
    \A p \in DOMAIN queue_count : p # last'.pid => MailboxKept(p)

\* what a sys_recv returns is a message that was sent to its caller
ReturnedToAddressee ==
  CallStep("sys_recv", "returned") =>
    /\ last'.msg.receiver_pid = last'.pid
    /\ last'.out = Delivery(last'.msg, last'.cap)

\* C29: mailbox isolation: a sys_send to destination D changes only D's
\* mailbox and a sys_recv changes only the caller's mailbox; the head, tail,
\* count and contents of every other task's mailbox (in particular the
\* sender's) are unchanged, and a message is only ever returned to the task
\* whose PID equals its receiver_pid.
C29_MailboxIsolation ==
  [][SendIsolated /\ RecvIsolated /\ ReturnedToAddressee]_vars

(* ---------------- C27 -------------------------------------------------- *)

\* task t is in the ready ring, or is the current task, or is the task that
\* kernel_main has dequeued into a local of schedule()
HeldBefore(t) ==
  \/ Occurrences(ReadyRing, t) > 0
  \/ current_task = t
  \/ cpu = "kernel_main" /\ t \in {km.task, km.next_task}

\* the same after the step
HeldAfter(t) ==
  \/ Occurrences(RingOf([ready_queue |-> ready_queue',
                         ready_queue_head |-> ready_queue_head',
                         ready_queue_count |-> ready_queue_count']), t) > 0
  \/ current_task' = t
  \/ cpu' = "kernel_main" /\ t \in {km'.task, km'.next_task}

\* the step leaves no Ready task outside the ring that was not outside it
\* before
NoEntryLost ==
  \A t \in Slots :
    (tasks'[t].state = TASK_READY /\ ~ HeldAfter(t)) =>
      (tasks[t].state = TASK_READY /\ ~ HeldBefore(t))

\* no task is twice in the ready ring
NoEntryTwice == \A t \in Slots : Occurrences(ReadyRing, t) <= 1

\* C27: every mutation of the ready queue, task states and current_task
\* runs with interrupts masked: a timer tick is never taken part-way through
\* schedule(), also not schedule() as called from kernel_main's loop after
\* enable_interrupts(); consequently no timer tick loses a ready-queue
\* entry, no entry is duplicated and no two tasks are Running.
C27_InterruptsMasked ==
  /\ [][TimerTickIrq => ~ PartWay]_vars
  /\ [][TimerTickIrq => NoEntryLost]_vars
  /\ [](NoEntryTwice /\ Cardinality(Running) <= 1)

(* ---------------- C31 -------------------------------------------------- *)

\* the ready queue is empty and the current task is Running
AloneRunning ==
  /\ ready_queue_count = 0
  /\ current_task # NULL
  /\ tasks[current_task].state = TASK_RUNNING

\* a yield, a timer tick or a schedule() call
YieldTickOrSchedule == SysYield \/ TimerTick \/ CallSchedule

\* the step leaves the same task current and Running, every other task as
\* it was, and the ready queue empty
CurrentContinues ==
  /\ current_task' = current_task
  /\ tasks' = tasks
  /\ ready_queue_count' = 0

\* C31: when the ready queue is empty and the current task is Running, a
\* yield, a timer tick or a schedule() call leaves the same task as
\* current_task in state Running, with the ready queue still empty.
C31_AloneContinues ==
  [][(AloneRunning /\ YieldTickOrSchedule) => CurrentContinues]_vars

\* the last two switch_to_asm calls were for the current task, which runs
\* with an empty ready queue: it was dispatched again by its own yield or
\* by a timer tick
C31_Witness ==
  /\ AloneRunning
  /\ Len(dispatched) >= 2
  /\ dispatched[Len(dispatched)] = current_task
  /\ dispatched[Len(dispatched) - 1] = current_task

(* ---------------- C32 -------------------------------------------------- *)

\* every task has exited, no task is Running and the processor is in the
\* hlt loop of exit_task
AllExitedAndHalted ==
  /\ \A t \in Slots : tasks[t].state = TASK_ZOMBIE /\ tasks[t].pid # 0
  /\ Running = {}
  /\ current_task = NULL
  /\ cpu = "halt"

\* C32: termination of the boot workload: with the tasks created by
\* kernel_main each running hello_world (its yields, then exit) and timer
\* ticks occurring fairly, every task is eventually dispatched and
\* eventually reaches Zombie, after which no task is Running and the kernel
\* halts.
C32_BootWorkloadTerminates ==
  /\ \A t \in Slots : <>(tasks[t].state = TASK_RUNNING)
  /\ <>[]AllExitedAndHalted

(* ---------------- C33 -------------------------------------------------- *)

\* the step before was a sys_recv that returned a message to the current
\* task
JustReceived ==
  /\ current_task # NULL
  /\ last.op = "sys_recv" /\ last.how = "returned"
  /\ last.pid = CallerPid
  /\ last.msg # NoMessage

\* C33: get_last_sender_pid returns the sender PID of the message most
\* recently received by the current task: immediately after a sys_recv
\* that returned a message sent by task S it returns the PID of S, whatever
\* the number of messages still pending in the mailbox (none included).
C33_LastSender ==
  [][(JustReceived /\ CallGetLastSenderPid) =>
       last'.ret = last.msg.sender_pid]_vars

(* ---------------- C34 -------------------------------------------------- *)

\* the row of message_queues, queue_head, queue_tail and queue_count that
\* the call of the last step used: target->pid for a sys_send that stored
\* its message, current_task->pid for a sys_recv, get_last_sender_pid or
\* peek_message_size made by a task
AccessedIndex ==
  IF last.op = "sys_send" /\ last.ret >= 0
  THEN {last.msg.receiver_pid}
  ELSE IF last.op \in {"sys_recv", "get_last_sender_pid",
                       "peek_message_size"}
          /\ last.how # "failed"
  THEN {last.pid}
  ELSE {}

\* C34: every access that sys_send, sys_recv, get_last_sender_pid and
\* peek_message_size make to the per-task mailbox arrays uses an index
\* within 0..MAX_TASKS-1, for every PID that create_task issues, and the
\* mailbox index of each live task is distinct from that of every other
\* live task.
C34_IndexInBounds ==
  /\ \A i \in AccessedIndex : i \in 0 .. (MAX_TASKS - 1)
  /\ \A t, u \in Slots :
       (t # u /\ tasks[t].state # TASK_ZOMBIE
          /\ tasks[u].state # TASK_ZOMBIE) => tasks[t].pid # tasks[u].pid

(* ---------------- C35 -------------------------------------------------- *)

\* the step is a map_page or an unmap_page of a page of the user range
MapOrUnmapOfUserPage ==
  /\ vmlast'.op \in {"map_page", "unmap_page"}
  /\ vmlast'.addr >= USER_BASE /\ vmlast'.addr < USER_STACK_TOP

\* the addresses of the user range that lie in another 4 KiB page than v
OtherUserPages(v) ==
  {w \in MapAddrs \cup FaultAddrs :
     /\ w >= USER_BASE /\ w < USER_STACK_TOP
     /\ FrameOf(w) # FrameOf(v)}

\* the translation of every other user page is as before the step
OthersKept ==
  \A w \in OtherUserPages(vmlast'.addr) :
    get_physical_address(vm', w) = get_physical_address(vm, w)

\* the step is an eviction that removed a descriptor
Evicted ==
  /\ vmlast'.op = "evict"
  /\ Len(vm'.page_frames) < Len(vm.page_frames)

\* every descriptor that is left, and whose page was mapped, is still
\* mapped to the same address
RemainingMapped ==
  \A i \in DOMAIN vm'.page_frames :
    LET w == vm'.page_frames[i].virtual_addr
    IN get_physical_address(vm, w) # 0 =>
         get_physical_address(vm', w) = get_physical_address(vm, w)

\* C35: mapping or unmapping one virtual page leaves the translation of
\* every other virtual page unchanged: for distinct 4 KiB pages v and w of
\* the user range, map_page(v, ...) and unmap_page(v) do not change
\* get_physical_address(w); in particular evicting one page leaves the page
\* of every remaining descriptor mapped.
C35_OtherPagesKept ==
  /\ [][MapOrUnmapOfUserPage => OthersKept]_vars
  /\ [][Evicted => RemainingMapped]_vars

====
